---- MODULE Spec2Model ----
(***************************************************************************)
(* Model of package gsm (k0yote/config): the reference parser (parser.go), *)
(* the resolver and its array value parser (resolver.go) and the secret    *)
(* source client (client.go).                                              *)
(*                                                                         *)
(* A Go string is modelled as a sequence of one-character strings, so that *)
(* prefix tests, splitting and trimming are computed character by          *)
(* character as the strings package computes them.                         *)
(***************************************************************************)
EXTENDS Integers, Sequences, FiniteSets, TLC

VARIABLES
    env,        \* the process environment: a function name -> value (os.Setenv)
    secrets,    \* the remote Secret Manager store: a function name -> payload
    sourceUp,   \* TRUE while the remote service answers (network, auth)
    ctxDone,    \* TRUE once the caller's context is cancelled or timed out
    resolver,   \* the Resolver built by NewResolver
    op,         \* the last operation called ("init" before any call)
    arg,        \* its argument
    ret,        \* what it returned
    envLookups, \* the names it passed to os.LookupEnv, in order
    fetches,    \* the names it passed to Client.GetSecret, in order
    target      \* the caller's variable that Load was handed, after the call

world == <<env, secrets, sourceUp, ctxDone, resolver, target>>
call == <<op, arg, ret, envLookups, fetches>>
vars == <<env, secrets, sourceUp, ctxDone, resolver, op, arg, ret, envLookups, fetches, target>>

----------------------------------------------------------------------------
(* Bounds of the explored inputs.                                          *)

\* longest text after the head of a Parse input
MaxTail == 6
\* most tokens in a parseArrayValue input
MaxTokens == 5
\* longest ResolveSlice input
MaxSlice == 2
\* most options given to NewResolver
MaxOpts == 2
MaxTagTokens == 5
MaxFields == 2
MaxRefLen == 4

----------------------------------------------------------------------------
(* package strings                                                          *)

\* unicode.IsSpace restricted to the characters the model uses
IsSpace(c) == c \in {" ", "\t", "\n", "\r"}

HasPrefix(s, prefix) ==
    /\ Len(s) >= Len(prefix)
    /\ SubSeq(s, 1, Len(prefix)) = prefix

\* strings.CutPrefix: (after, found)
CutPrefix(s, prefix) ==
    IF HasPrefix(s, prefix)
    THEN [after |-> SubSeq(s, Len(prefix) + 1, Len(s)), found |-> TRUE]
    ELSE [after |-> s, found |-> FALSE]

\* strings.Index, 1-based; 0 when sep does not occur
Index(s, sep) ==
    LET hits == {i \in 1..(Len(s) - Len(sep) + 1) : SubSeq(s, i, i + Len(sep) - 1) = sep}
    IN  IF hits = {} THEN 0 ELSE CHOOSE i \in hits : \A j \in hits : i <= j

Contains(s, sep) == Index(s, sep) # 0

\* strings.SplitN(s, sep, 2)
SplitN2(s, sep) ==
    LET i == Index(s, sep)
    IN  IF i = 0 THEN <<s>>
        ELSE <<SubSeq(s, 1, i - 1), SubSeq(s, i + Len(sep), Len(s))>>

RECURSIVE Split(_, _)
\* strings.Split(s, sep) for a non-empty sep
Split(s, sep) ==
    LET i == Index(s, sep)
    IN  IF i = 0 THEN <<s>>
        ELSE <<SubSeq(s, 1, i - 1)>> \o Split(SubSeq(s, i + Len(sep), Len(s)), sep)

\* strings.TrimSpace
TrimSpace(s) ==
    LET keep == {i \in 1..Len(s) : ~IsSpace(s[i])}
    IN  IF keep = {} THEN <<>>
        ELSE LET lo == CHOOSE i \in keep : \A j \in keep : i <= j
                 hi == CHOOSE i \in keep : \A j \in keep : j <= i
             IN  SubSeq(s, lo, hi)

----------------------------------------------------------------------------
(* parser.go                                                                *)

SecretPrefix == <<"s", "m", ":", "/", "/">>
DefaultSeparator == <<"|", "|">>

\* the zero SecretRef
ZeroRef == [SecretName |-> <<>>, DefaultValue |-> <<>>, HasDefault |-> FALSE, IsSecretRef |-> FALSE]

\* a plausible slip: the key is left untrimmed and the default trimmed
ParseTrimsDefault(value) ==
    LET cut == CutPrefix(value, SecretPrefix)
        parts == SplitN2(cut.after, DefaultSeparator)
    IN  IF ~cut.found
        THEN [ZeroRef EXCEPT !.DefaultValue = value, !.HasDefault = TRUE]
        ELSE IF Len(parts) = 2
             THEN [SecretName |-> parts[1], DefaultValue |-> TrimSpace(parts[2]),
                   HasDefault |-> TRUE, IsSecretRef |-> TRUE]
             ELSE [ZeroRef EXCEPT !.SecretName = parts[1], !.IsSecretRef = TRUE]

\* a plausible slip: the prefix is looked for anywhere in the value
ParseContainsPrefix(value) ==
    LET i == Index(value, SecretPrefix)
        after == SubSeq(value, i + Len(SecretPrefix), Len(value))
        parts == SplitN2(after, DefaultSeparator)
    IN  IF i = 0
        THEN [ZeroRef EXCEPT !.DefaultValue = value, !.HasDefault = TRUE]
        ELSE IF Len(parts) = 2
             THEN [SecretName |-> TrimSpace(parts[1]), DefaultValue |-> parts[2],
                   HasDefault |-> TRUE, IsSecretRef |-> TRUE]
             ELSE [ZeroRef EXCEPT !.SecretName = TrimSpace(parts[1]), !.IsSecretRef = TRUE]

Parse(value) ==
    LET cut == CutPrefix(value, SecretPrefix)
        parts == SplitN2(cut.after, DefaultSeparator)
    IN  IF ~cut.found
        THEN [ZeroRef EXCEPT !.DefaultValue = value, !.HasDefault = TRUE]
        ELSE IF Len(parts) = 2
             THEN [SecretName |-> TrimSpace(parts[1]), DefaultValue |-> parts[2],
                   HasDefault |-> TRUE, IsSecretRef |-> TRUE]
             ELSE [ZeroRef EXCEPT !.SecretName = TrimSpace(parts[1]), !.IsSecretRef = TRUE]

IsSecretReference(value) == HasPrefix(value, SecretPrefix)

----------------------------------------------------------------------------
(* Values common to the specifications.                                    *)

NilErr == [kind |-> "nil", detail |-> <<>>, unwrap |-> "nil"]
NoRet == [val |-> <<>>, err |-> NilErr]
NoEnv == [n \in {} |-> <<>>]
\* no variable has been handed to Load
NoTarget == [shape |-> "none", fields |-> <<>>, vals |-> <<>>]

\* all sequences over S of length at most n
SeqsUpTo(S, n) == UNION {[1..k -> S] : k \in 0..n}

\* the variables a specification does not use stay at these values
IdleWorld ==
    /\ env = NoEnv
    /\ secrets = NoEnv
    /\ sourceUp = FALSE
    /\ ctxDone = FALSE
    /\ resolver = [client |-> "nil", secretManagerEnabled |-> FALSE, envPrefix |-> <<>>]
    /\ target = NoTarget

----------------------------------------------------------------------------
(* ParseSpec: Parse and IsSecretReference applied to every input made of a  *)
(* head (the prefix, a proper prefix of it, or a near miss) and a tail.    *)

ParseHeads ==
    {SubSeq(SecretPrefix, 1, k) : k \in 0..Len(SecretPrefix)}
        \cup {<<" ">> \o SecretPrefix, <<"S", "m", ":", "/", "/">>}
ParseTailChars == {"K", " ", "|", "d"}
\* the inputs with a tail of at most n characters
ParseInputs(n) == {h \o t : h \in ParseHeads, t \in SeqsUpTo(ParseTailChars, n)}

ParseInit ==
    /\ IdleWorld
    /\ op = "init"
    /\ arg \in ParseInputs(MaxTail)
    /\ ret = NoRet
    /\ envLookups = <<>>
    /\ fetches = <<>>

CallParse ==
    /\ op = "init"
    /\ op' = "Parse"
    /\ ret' = Parse(arg)
    /\ UNCHANGED <<world, arg, envLookups, fetches>>

CallIsSecretReference ==
    /\ op = "init"
    /\ op' = "IsSecretReference"
    /\ ret' = IsSecretReference(arg)
    /\ UNCHANGED <<world, arg, envLookups, fetches>>

ParseNext == CallParse \/ CallIsSecretReference

ParseSpec == ParseInit /\ [][ParseNext]_vars

\* the input starts with the five characters s m : / /
StartsWithSm(s) ==
    /\ Len(s) >= 5
    /\ s[1] = "s" /\ s[2] = "m" /\ s[3] = ":" /\ s[4] = "/" /\ s[5] = "/"

\* C6: Parse is total and IsSecretRef is true exactly when the input starts
\* with "sm://", which is also the answer of IsSecretReference; when it is
\* false the key is empty, the fallback is the whole input and HasDefault is
\* true.
C6_ParseInvariant ==
    /\ op = "Parse" =>
           /\ DOMAIN ret = DOMAIN ZeroRef
           /\ ret.IsSecretRef = StartsWithSm(arg)
           /\ ~ret.IsSecretRef =>
                  /\ ret.SecretName = <<>>
                  /\ ret.DefaultValue = arg
                  /\ ret.HasDefault
    /\ op = "IsSecretReference" => ret = StartsWithSm(arg)

\* a near miss of the prefix, holding "sm://" further in, was parsed as a literal
C6_Witness ==
    /\ op = "Parse"
    /\ ~ret.IsSecretRef
    /\ Contains(arg, SecretPrefix)
    /\ Contains(arg, DefaultSeparator)

\* the text of an "sm://" input after the prefix
Rest(s) == SubSeq(s, 6, Len(s))
\* the places of R where "||" occurs
BarsAt(R) == {i \in 1..(Len(R) - 1) : R[i] = "|" /\ R[i + 1] = "|"}
\* t is s without its leading and trailing white space
IsTrimOf(t, s) ==
    \E lo \in 1..(Len(s) + 1) : \E hi \in 0..Len(s) :
        /\ t = SubSeq(s, lo, hi)
        /\ \A i \in 1..Len(s) : (i < lo \/ i > hi) => IsSpace(s[i])
        /\ t # <<>> => (~IsSpace(t[1]) /\ ~IsSpace(t[Len(t)]))

\* C7: for "sm://"+R, HasDefault is true exactly when R contains "||"; the
\* key is the trimmed text before the first "||" (all of R without one) and
\* the fallback is everything after that first "||", untrimmed.
C7_SplitAtFirstSeparator ==
    (op = "Parse" /\ StartsWithSm(arg)) =>
        LET R == Rest(arg)
        IN  /\ ret.HasDefault = (BarsAt(R) # {})
            /\ BarsAt(R) = {} =>
                   /\ IsTrimOf(ret.SecretName, R)
                   /\ ret.DefaultValue = <<>>
            /\ \A i \in BarsAt(R) :
                   (\A j \in BarsAt(R) : i <= j) =>
                       /\ IsTrimOf(ret.SecretName, SubSeq(R, 1, i - 1))
                       /\ ret.DefaultValue = SubSeq(R, i + 2, Len(R))

\* a key with spaces around it, and a fallback that holds a further "||"
\* and a space
C7_Witness ==
    /\ op = "Parse"
    /\ StartsWithSm(arg)
    /\ ret.HasDefault
    /\ ret.SecretName # <<>>
    /\ Len(ret.SecretName) + 2 + Len(ret.DefaultValue) < Len(Rest(arg))
    /\ Contains(ret.DefaultValue, DefaultSeparator)

----------------------------------------------------------------------------
(* encoding/json, as far as json.Unmarshal(data, &arr) with arr a []string *)
(* goes.  The inputs hold no backslash, no digit and no letter of true or  *)
(* false, so a JSON value is a string without escapes, the literal null or *)
(* an array.                                                               *)

\* the scanner's isSpace
IsJSONSpace(c) == c \in {" ", "\t", "\n", "\r"}

RECURSIVE SkipSpace(_, _)
\* the first place at or after i that holds no white space (Len(s) + 1 at the end)
SkipSpace(s, i) ==
    IF i <= Len(s) /\ IsJSONSpace(s[i]) THEN SkipSpace(s, i + 1) ELSE i

JSONNull == <<"n", "u", "l", "l">>
ScanFail == [ok |-> FALSE, next |-> 0, kind |-> "invalid", str |-> <<>>]

\* the place of the quote closing the string opened before i (0 if none)
ClosingQuote(s, i) ==
    LET qs == {j \in i..Len(s) : s[j] = "\""}
    IN  IF qs = {} THEN 0 ELSE CHOOSE j \in qs : \A k \in qs : j <= k

\* a scanned value: whether it is well formed, where it ends, its kind and,
\* for a string, its text
Scanned(next, kind, str) == [ok |-> TRUE, next |-> next, kind |-> kind, str |-> str]
\* a scanned run of elements: whether it is well formed, the place after the
\* closing bracket, and the elements
NoElements == [ok |-> FALSE, next |-> 0, elems |-> <<>>]

\* the string whose closing quote is at j (0: there is none)
StringUpTo(s, i, j) ==
    IF j = 0 THEN ScanFail ELSE Scanned(j + 1, "string", SubSeq(s, i + 1, j - 1))

\* an array whose elements were scanned as e
ArrayOf(e) == IF e.ok THEN Scanned(e.next, "array", <<>>) ELSE ScanFail

RECURSIVE ScanValue(_, _)
RECURSIVE ScanElements(_, _)

\* the array opened before j, j being the first place after the bracket
\* that holds no white space
ScanArrayFrom(s, j) ==
    IF j <= Len(s) /\ s[j] = "]" THEN Scanned(j + 1, "array", <<>>)
    ELSE ArrayOf(ScanElements(s, j))

\* one JSON value starting at i
ScanValue(s, i) ==
    IF i > Len(s) THEN ScanFail
    ELSE IF s[i] = "\"" THEN StringUpTo(s, i, ClosingQuote(s, i + 1))
    ELSE IF s[i] = "[" THEN ScanArrayFrom(s, SkipSpace(s, i + 1))
    ELSE IF i + 3 <= Len(s) /\ SubSeq(s, i, i + 3) = JSONNull THEN Scanned(i + 4, "null", <<>>)
    ELSE ScanFail

\* the element v followed by the elements more
ElementThen(v, more) ==
    IF more.ok THEN [ok |-> TRUE, next |-> more.next, elems |-> <<v>> \o more.elems]
    ELSE NoElements

\* what follows the element v, k being the first place after it that holds
\* no white space: the closing bracket, or a comma and more elements
AfterElement(s, v, k) ==
    IF ~v.ok \/ k > Len(s) THEN NoElements
    ELSE IF s[k] = "]" THEN [ok |-> TRUE, next |-> k + 1, elems |-> <<v>>]
    ELSE IF s[k] = "," THEN ElementThen(v, ScanElements(s, SkipSpace(s, k + 1)))
    ELSE NoElements

ElementsFrom(s, v) == AfterElement(s, v, SkipSpace(s, v.next))

\* the elements of an array from the value at i up to the closing bracket
ScanElements(s, i) == ElementsFrom(s, ScanValue(s, i))

\* the decoded array: a syntax error unless data is one well-formed array;
\* an element that is an array is an UnmarshalTypeError; null leaves its
\* element at the zero value ""
Decoded(data, e) ==
    IF ~e.ok \/ SkipSpace(data, e.next) <= Len(data)
    THEN [arr |-> <<>>, err |-> "json.SyntaxError"]
    ELSE IF \E n \in 1..Len(e.elems) : e.elems[n].kind = "array"
    THEN [arr |-> <<>>, err |-> "json.UnmarshalTypeError"]
    ELSE [arr |-> [n \in 1..Len(e.elems) |-> e.elems[n].str], err |-> "nil"]

\* the elements of the array data, j being the first place after its
\* opening bracket that holds no white space
ElementsOfArray(data, j) ==
    IF j <= Len(data) /\ data[j] = "]" THEN [ok |-> TRUE, next |-> j + 1, elems |-> <<>>]
    ELSE ScanElements(data, j)

\* json.Unmarshal(data, &arr) for data starting with "["
UnmarshalStrings(data) == Decoded(data, ElementsOfArray(data, SkipSpace(data, 2)))

----------------------------------------------------------------------------
(* resolver.go: parseArrayValue                                             *)

\* fmt.Errorf("failed to parse JSON array: %w", err): an error with no field
\* for the value, whose chain holds the json error
WrapJSONError(jsonErr) == [kind |-> "fmt.wrapError", detail |-> <<>>, unwrap |-> jsonErr]

RECURSIVE TrimAndDrop(_)
\* the loop of lines 163-168: trim each part, keep the non-empty ones
TrimAndDrop(parts) ==
    IF parts = <<>> THEN <<>>
    ELSE LET trimmed == TrimSpace(Head(parts))
         IN  (IF trimmed # <<>> THEN <<trimmed>> ELSE <<>>) \o TrimAndDrop(Tail(parts))

\* lines 152-156: the array json.Unmarshal gave, or its error wrapped
FromUnmarshal(u) ==
    IF u.err # "nil" THEN [val |-> <<>>, err |-> WrapJSONError(u.err)]
    ELSE [val |-> u.arr, err |-> NilErr]

\* a plausible slip: the comma test comes before the bracket test
parseTrimmedCommaFirst(value) ==
    IF Contains(value, <<",">>)
    THEN [val |-> TrimAndDrop(Split(value, <<",">>)), err |-> NilErr]
    ELSE IF HasPrefix(value, <<"[">>) THEN FromUnmarshal(UnmarshalStrings(value))
    ELSE IF value # <<>> THEN [val |-> <<value>>, err |-> NilErr]
    ELSE [val |-> <<>>, err |-> NilErr]

\* lines 150-177, value being trimmed already
parseTrimmed(value) ==
    IF HasPrefix(value, <<"[">>) THEN FromUnmarshal(UnmarshalStrings(value))
    ELSE IF Contains(value, <<",">>)
    THEN [val |-> TrimAndDrop(Split(value, <<",">>)), err |-> NilErr]
    ELSE IF value # <<>> THEN [val |-> <<value>>, err |-> NilErr]
    ELSE [val |-> <<>>, err |-> NilErr]

parseArrayValue(value) == parseTrimmed(TrimSpace(value))

\* errors.Is(err, sentinel) along the Unwrap chain of the package's errors
ErrorsIs(err, sentinel) == err.kind # "nil" /\ err.unwrap = sentinel

----------------------------------------------------------------------------
(* ArraySpec: parseArrayValue applied to every input of at most MaxTokens   *)
(* tokens.                                                                  *)

ArrayTokens ==
    { <<"[">>, <<"]">>, <<",">>, <<" ">>, <<"a">>,
      <<"\"", "a", "\"">>, <<"\"", "a", ",", "b", "\"">>, JSONNull }

RECURSIVE Flatten(_)
Flatten(ss) == IF ss = <<>> THEN <<>> ELSE Head(ss) \o Flatten(Tail(ss))

\* the inputs of at most n tokens
ArrayInputs(n) == {Flatten(ts) : ts \in SeqsUpTo(ArrayTokens, n)}

ArrayInit ==
    /\ IdleWorld
    /\ op = "init"
    /\ arg \in ArrayInputs(MaxTokens)
    /\ ret = NoRet
    /\ envLookups = <<>>
    /\ fetches = <<>>

CallParseArrayValue ==
    /\ op = "init"
    /\ op' = "parseArrayValue"
    /\ ret' = parseArrayValue(arg)
    /\ UNCHANGED <<world, arg, envLookups, fetches>>

ArrayNext == CallParseArrayValue

ArraySpec == ArrayInit /\ [][ArrayNext]_vars

\* the JSON text of a list of strings that need no escaping
JSONOf(list) ==
    LET Quoted(e) == <<"\"">> \o e \o <<"\"">>
        Items[n \in 0..Len(list)] ==
            IF n = 0 THEN <<>>
            ELSE Items[n - 1] \o (IF n = 1 THEN <<>> ELSE <<",">>) \o Quoted(list[n])
    IN  <<"[">> \o Items[Len(list)] \o <<"]">>

\* the elements the array inputs can hold
ArrayElems == {<<"a">>, <<"a", ",", "b">>}

\* the places of the commas of v, and the text between one comma and the next
CommasOf(v) == {i \in 1..Len(v) : v[i] = ","}
PiecesOf(v) ==
    LET cs == CommasOf(v)
        Nth(k) == IF k = 0 THEN 0
                  ELSE IF k = Cardinality(cs) + 1 THEN Len(v) + 1
                  ELSE CHOOSE i \in cs : Cardinality({j \in cs : j < i}) = k - 1
    IN  [k \in 1..(Cardinality(cs) + 1) |-> SubSeq(v, Nth(k - 1) + 1, Nth(k) - 1)]
IsBlank(p) == \A i \in 1..Len(p) : IsSpace(p[i])
NotBlank(p) == ~IsBlank(p)

\* C8: parseArrayValue decides the shape of its trimmed input in this order:
\* a text starting with "[" is read as a JSON array and the JSON text of a
\* list of strings gives back that list, commas inside elements included;
\* otherwise a text with a comma gives its comma-separated pieces, each
\* trimmed, the blank ones dropped, so no element is empty, has white space
\* around it or holds a comma; otherwise a non-empty text gives the list of
\* itself and the empty text the empty list.
C8_ShapeOrder ==
    op = "parseArrayValue" =>
        LET v == TrimSpace(arg)
            kept == SelectSeq(PiecesOf(v), NotBlank)
        IN  /\ \A list \in SeqsUpTo(ArrayElems, 2) :
                   v = JSONOf(list) => (ret.err = NilErr /\ ret.val = list)
            /\ (v # <<>> /\ v[1] # "[" /\ CommasOf(v) # {}) =>
                   /\ ret.err = NilErr
                   /\ Len(ret.val) = Len(kept)
                   /\ \A k \in 1..Len(kept) : IsTrimOf(ret.val[k], kept[k])
                   /\ \A k \in 1..Len(ret.val) :
                          /\ ret.val[k] # <<>>
                          /\ ~IsSpace(ret.val[k][1])
                          /\ ~IsSpace(ret.val[k][Len(ret.val[k])])
                          /\ CommasOf(ret.val[k]) = {}
            /\ (v # <<>> /\ v[1] # "[" /\ CommasOf(v) = {}) =>
                   (ret.err = NilErr /\ ret.val = <<v>>)
            /\ v = <<>> => (ret.err = NilErr /\ ret.val = <<>>)

\* a JSON array whose element holds a comma came back as that one element
C8_Witness ==
    /\ op = "parseArrayValue"
    /\ TrimSpace(arg) = JSONOf(<<<<"a", ",", "b">>>>)
    /\ arg # TrimSpace(arg)
    /\ ret.val = <<<<"a", ",", "b">>>>

\* a comma list with blank pieces and spaces lost them
C8_WitnessCommaList ==
    /\ op = "parseArrayValue"
    /\ arg = <<" ", "a", ",", ",", " ">>
    /\ ret.val = <<<<"a">>>>

\* C9, as the specification states it: a failure of parseArrayValue is an
\* InvalidFormatError, matches ErrInvalidFormat and carries the offending
\* text; and only a text starting with "[" fails.
C9_FormatErrorKind ==
    (op = "parseArrayValue" /\ ret.err # NilErr) =>
        /\ HasPrefix(TrimSpace(arg), <<"[">>)
        /\ ret.err.kind = "InvalidFormatError"
        /\ ErrorsIs(ret.err, "ErrInvalidFormat")
        /\ ret.err.detail = TrimSpace(arg)

\* C9, the part the code keeps: parseArrayValue fails only on a text that
\* starts with "[", and every text that does not start with "[" succeeds.
C9_FailsOnlyOnBracket ==
    op = "parseArrayValue" =>
        (ret.err # NilErr => HasPrefix(TrimSpace(arg), <<"[">>))

\* a malformed bracketed text failed
C9_Witness ==
    /\ op = "parseArrayValue"
    /\ arg = <<"[", "\"", "a", "\"">>
    /\ ret.err # NilErr

----------------------------------------------------------------------------
(* errors.go, client.go                                                     *)

\* &SecretNotFoundError{SecretName: name}; Unwrap gives ErrSecretNotFound
SecretNotFoundError(name) ==
    [kind |-> "SecretNotFoundError", detail |-> name, unwrap |-> "ErrSecretNotFound"]

\* fmt.Errorf("secretName cannot be empty")
EmptyNameError == [kind |-> "errorString", detail |-> <<>>, unwrap |-> "nil"]

\* the remote call c.client.AccessSecretVersion(ctx, req): it fails when the
\* context is done, when the service does not answer and when the secret
\* does not exist; w is the state of the world [env, secrets, sourceUp, ctxDone]
AccessSecretVersion(w, secretName) ==
    IF w.ctxDone \/ ~w.sourceUp \/ secretName \notin DOMAIN w.secrets
    THEN [payload |-> <<>>, ok |-> FALSE]
    ELSE [payload |-> w.secrets[secretName], ok |-> TRUE]

\* Client.GetSecret
GetSecret(w, secretName) ==
    IF secretName = <<>> THEN [value |-> <<>>, err |-> EmptyNameError]
    ELSE LET result == AccessSecretVersion(w, secretName)
         IN  IF ~result.ok THEN [value |-> <<>>, err |-> SecretNotFoundError(secretName)]
             ELSE [value |-> result.payload, err |-> NilErr]

\* os.LookupEnv
LookupEnv(w, key) ==
    IF key \in DOMAIN w.env THEN [value |-> w.env[key], exists |-> TRUE]
    ELSE [value |-> <<>>, exists |-> FALSE]

----------------------------------------------------------------------------
(* resolver.go: NewResolver, Resolve, ResolveSlice                          *)

WithSecretManagerEnabled(enabled) ==
    [opt |-> "WithSecretManagerEnabled", enabled |-> enabled, prefix |-> <<>>]
WithEnvPrefix(prefix) ==
    [opt |-> "WithEnvPrefix", enabled |-> FALSE, prefix |-> prefix]

\* opt(r)
ApplyOption(r, o) ==
    IF o.opt = "WithSecretManagerEnabled" THEN [r EXCEPT !.secretManagerEnabled = o.enabled]
    ELSE [r EXCEPT !.envPrefix = o.prefix]

\* client is "nil" or "bound"
NewResolver(client, opts) ==
    LET r0 == [client |-> client, secretManagerEnabled |-> (client # "nil"), envPrefix |-> <<>>]
        Applied[n \in 0..Len(opts)] == IF n = 0 THEN r0 ELSE ApplyOption(Applied[n - 1], opts[n])
    IN  Applied[Len(opts)]

\* what a call returns, with the lookups it made
Returned(val, err, looked, fetched) ==
    [val |-> val, err |-> err, looked |-> looked, fetched |-> fetched]

\* a plausible slip: a variable that exists wins even when it is empty
ResolveEnvExists(r, w, value) ==
    LET ref == Parse(value)
        envKey == r.envPrefix \o ref.SecretName
        e == LookupEnv(w, envKey)
        sm == GetSecret(w, ref.SecretName)
    IN  IF ~ref.IsSecretRef THEN Returned(ref.DefaultValue, NilErr, <<>>, <<>>)
        ELSE IF e.exists THEN Returned(e.value, NilErr, <<envKey>>, <<>>)
        ELSE IF r.secretManagerEnabled /\ r.client # "nil" /\ sm.err = NilErr
        THEN Returned(sm.value, NilErr, <<envKey>>, <<ref.SecretName>>)
        ELSE LET fetched == IF r.secretManagerEnabled /\ r.client # "nil"
                            THEN <<ref.SecretName>> ELSE <<>>
             IN  IF ref.HasDefault THEN Returned(ref.DefaultValue, NilErr, <<envKey>>, fetched)
                 ELSE Returned(<<>>, SecretNotFoundError(ref.SecretName), <<envKey>>, fetched)

\* a plausible slip: the Secret Manager is asked before the environment
ResolveSecretFirst(r, w, value) ==
    LET ref == Parse(value)
        envKey == r.envPrefix \o ref.SecretName
        e == LookupEnv(w, envKey)
        sm == GetSecret(w, ref.SecretName)
    IN  IF ~ref.IsSecretRef THEN Returned(ref.DefaultValue, NilErr, <<>>, <<>>)
        ELSE IF r.secretManagerEnabled /\ r.client # "nil" /\ sm.err = NilErr
        THEN Returned(sm.value, NilErr, <<>>, <<ref.SecretName>>)
        ELSE LET fetched == IF r.secretManagerEnabled /\ r.client # "nil"
                            THEN <<ref.SecretName>> ELSE <<>>
             IN  IF e.exists /\ e.value # <<>> THEN Returned(e.value, NilErr, <<envKey>>, fetched)
                 ELSE IF ref.HasDefault THEN Returned(ref.DefaultValue, NilErr, <<envKey>>, fetched)
                 ELSE Returned(<<>>, SecretNotFoundError(ref.SecretName), <<envKey>>, fetched)

\* a plausible slip: the error of GetSecret is returned to the caller
ResolveFetchErrorFatal(r, w, value) ==
    LET ref == Parse(value)
        envKey == r.envPrefix \o ref.SecretName
        e == LookupEnv(w, envKey)
        sm == GetSecret(w, ref.SecretName)
    IN  IF ~ref.IsSecretRef THEN Returned(ref.DefaultValue, NilErr, <<>>, <<>>)
        ELSE IF e.exists /\ e.value # <<>> THEN Returned(e.value, NilErr, <<envKey>>, <<>>)
        ELSE IF r.secretManagerEnabled /\ r.client # "nil"
        THEN Returned(sm.value, sm.err, <<envKey>>, <<ref.SecretName>>)
        ELSE IF ref.HasDefault THEN Returned(ref.DefaultValue, NilErr, <<envKey>>, <<>>)
        ELSE Returned(<<>>, SecretNotFoundError(ref.SecretName), <<envKey>>, <<>>)

\* a plausible slip: the environment is looked up before the prefix test
ResolveLooksUpLiterals(r, w, value) ==
    LET ref == Parse(value)
        name == IF ref.IsSecretRef THEN ref.SecretName ELSE value
        envKey == r.envPrefix \o name
        e == LookupEnv(w, envKey)
        sm == GetSecret(w, ref.SecretName)
    IN  IF e.exists /\ e.value # <<>> THEN Returned(e.value, NilErr, <<envKey>>, <<>>)
        ELSE IF ~ref.IsSecretRef THEN Returned(ref.DefaultValue, NilErr, <<envKey>>, <<>>)
        ELSE IF r.secretManagerEnabled /\ r.client # "nil" /\ sm.err = NilErr
        THEN Returned(sm.value, NilErr, <<envKey>>, <<ref.SecretName>>)
        ELSE LET fetched == IF r.secretManagerEnabled /\ r.client # "nil"
                            THEN <<ref.SecretName>> ELSE <<>>
             IN  IF ref.HasDefault THEN Returned(ref.DefaultValue, NilErr, <<envKey>>, fetched)
                 ELSE Returned(<<>>, SecretNotFoundError(ref.SecretName), <<envKey>>, fetched)

\* a plausible slip: an empty fallback counts as no fallback
ResolveEmptyDefaultFails(r, w, value) ==
    LET ref == Parse(value)
        envKey == r.envPrefix \o ref.SecretName
        e == LookupEnv(w, envKey)
        sm == GetSecret(w, ref.SecretName)
    IN  IF ~ref.IsSecretRef THEN Returned(ref.DefaultValue, NilErr, <<>>, <<>>)
        ELSE IF e.exists /\ e.value # <<>> THEN Returned(e.value, NilErr, <<envKey>>, <<>>)
        ELSE IF r.secretManagerEnabled /\ r.client # "nil" /\ sm.err = NilErr
        THEN Returned(sm.value, NilErr, <<envKey>>, <<ref.SecretName>>)
        ELSE LET fetched == IF r.secretManagerEnabled /\ r.client # "nil"
                            THEN <<ref.SecretName>> ELSE <<>>
             IN  IF ref.DefaultValue # <<>> THEN Returned(ref.DefaultValue, NilErr, <<envKey>>, fetched)
                 ELSE Returned(<<>>, SecretNotFoundError(ref.SecretName), <<envKey>>, fetched)

\* a plausible slip: an empty secret counts as absent, like an empty variable
ResolveEmptySecretAbsent(r, w, value) ==
    LET ref == Parse(value)
        envKey == r.envPrefix \o ref.SecretName
        e == LookupEnv(w, envKey)
        sm == GetSecret(w, ref.SecretName)
    IN  IF ~ref.IsSecretRef THEN Returned(ref.DefaultValue, NilErr, <<>>, <<>>)
        ELSE IF e.exists /\ e.value # <<>> THEN Returned(e.value, NilErr, <<envKey>>, <<>>)
        ELSE IF r.secretManagerEnabled /\ r.client # "nil" /\ sm.err = NilErr /\ sm.value # <<>>
        THEN Returned(sm.value, NilErr, <<envKey>>, <<ref.SecretName>>)
        ELSE LET fetched == IF r.secretManagerEnabled /\ r.client # "nil"
                            THEN <<ref.SecretName>> ELSE <<>>
             IN  IF ref.HasDefault THEN Returned(ref.DefaultValue, NilErr, <<envKey>>, fetched)
                 ELSE Returned(<<>>, SecretNotFoundError(ref.SecretName), <<envKey>>, fetched)

\* a plausible slip: the client is called without checking that there is one
ResolveCallsAbsentClient(r, w, value) ==
    LET ref == Parse(value)
        envKey == r.envPrefix \o ref.SecretName
        e == LookupEnv(w, envKey)
        sm == GetSecret(w, ref.SecretName)
    IN  IF ~ref.IsSecretRef THEN Returned(ref.DefaultValue, NilErr, <<>>, <<>>)
        ELSE IF e.exists /\ e.value # <<>> THEN Returned(e.value, NilErr, <<envKey>>, <<>>)
        ELSE IF r.secretManagerEnabled /\ r.client # "nil" /\ sm.err = NilErr
        THEN Returned(sm.value, NilErr, <<envKey>>, <<ref.SecretName>>)
        ELSE LET fetched == IF r.secretManagerEnabled THEN <<ref.SecretName>> ELSE <<>>
             IN  IF ref.HasDefault THEN Returned(ref.DefaultValue, NilErr, <<envKey>>, fetched)
                 ELSE Returned(<<>>, SecretNotFoundError(ref.SecretName), <<envKey>>, fetched)

\* a plausible slip: the prefixed key is used for the Secret Manager too
ResolvePrefixesSecret(r, w, value) ==
    LET ref == Parse(value)
        envKey == r.envPrefix \o ref.SecretName
        e == LookupEnv(w, envKey)
        sm == GetSecret(w, envKey)
    IN  IF ~ref.IsSecretRef THEN Returned(ref.DefaultValue, NilErr, <<>>, <<>>)
        ELSE IF e.exists /\ e.value # <<>> THEN Returned(e.value, NilErr, <<envKey>>, <<>>)
        ELSE IF r.secretManagerEnabled /\ r.client # "nil" /\ sm.err = NilErr
        THEN Returned(sm.value, NilErr, <<envKey>>, <<envKey>>)
        ELSE LET fetched == IF r.secretManagerEnabled /\ r.client # "nil"
                            THEN <<envKey>> ELSE <<>>
             IN  IF ref.HasDefault THEN Returned(ref.DefaultValue, NilErr, <<envKey>>, fetched)
                 ELSE Returned(<<>>, SecretNotFoundError(envKey), <<envKey>>, fetched)

\* Resolver.Resolve(ctx, value); the context is w.ctxDone
Resolve(r, w, value) ==
    LET ref == Parse(value)
        envKey == r.envPrefix \o ref.SecretName
        e == LookupEnv(w, envKey)
        sm == GetSecret(w, ref.SecretName)
    IN  IF ~ref.IsSecretRef THEN Returned(ref.DefaultValue, NilErr, <<>>, <<>>)
        ELSE IF e.exists /\ e.value # <<>> THEN Returned(e.value, NilErr, <<envKey>>, <<>>)
        ELSE IF r.secretManagerEnabled /\ r.client # "nil" /\ sm.err = NilErr
        THEN Returned(sm.value, NilErr, <<envKey>>, <<ref.SecretName>>)
        ELSE LET fetched == IF r.secretManagerEnabled /\ r.client # "nil"
                            THEN <<ref.SecretName>> ELSE <<>>
             IN  IF ref.HasDefault THEN Returned(ref.DefaultValue, NilErr, <<envKey>>, fetched)
                 ELSE Returned(<<>>, SecretNotFoundError(ref.SecretName), <<envKey>>, fetched)

\* a plausible slip: an element that fails is left out and the loop goes on
CollectSkipsFailure(acc, one) ==
    IF one.err # NilErr
    THEN Returned(acc.val, NilErr, acc.looked \o one.looked, acc.fetched \o one.fetched)
    ELSE Returned(Append(acc.val, one.val), NilErr,
                  acc.looked \o one.looked, acc.fetched \o one.fetched)

\* lines 132-136: the error of the value resolved last and no result, or its
\* value appended to the result
Collect(acc, one) ==
    IF one.err # NilErr
    THEN Returned(<<>>, one.err, acc.looked \o one.looked, acc.fetched \o one.fetched)
    ELSE Returned(Append(acc.val, one.val), NilErr,
                  acc.looked \o one.looked, acc.fetched \o one.fetched)

RECURSIVE ResolveEach(_, _, _, _)
\* the loop of lines 130-139 over the values from the n-th on, acc holding
\* what the earlier ones gave
ResolveEach(r, w, values, acc) ==
    IF values = <<>> THEN acc
    ELSE IF Collect(acc, Resolve(r, w, Head(values))).err # NilErr
    THEN Collect(acc, Resolve(r, w, Head(values)))
    ELSE ResolveEach(r, w, Tail(values), Collect(acc, Resolve(r, w, Head(values))))

\* return parseArrayValue(text), with the lookups made
WithLookups(a, looked, fetched) == Returned(a.val, a.err, looked, fetched)
Parsed(text, looked, fetched) == WithLookups(parseArrayValue(text), looked, fetched)

\* a plausible slip: a value that does not parse falls through to the next tier
ResolveArraySourceFallsThrough(r, w, value) ==
    LET ref == Parse(value)
        envKey == r.envPrefix \o ref.SecretName
        e == LookupEnv(w, envKey)
        sm == GetSecret(w, ref.SecretName)
    IN  IF e.exists /\ e.value # <<>> /\ parseArrayValue(e.value).err = NilErr
        THEN Parsed(e.value, <<envKey>>, <<>>)
        ELSE IF r.secretManagerEnabled /\ r.client # "nil" /\ sm.err = NilErr
        THEN Parsed(sm.value, <<envKey>>, <<ref.SecretName>>)
        ELSE LET fetched == IF r.secretManagerEnabled /\ r.client # "nil"
                            THEN <<ref.SecretName>> ELSE <<>>
             IN  IF ref.HasDefault THEN Parsed(ref.DefaultValue, <<envKey>>, fetched)
                 ELSE Returned(<<>>, SecretNotFoundError(ref.SecretName), <<envKey>>, fetched)

\* the single-reference branch of ResolveSlice, lines 104-127
ResolveArraySource(r, w, value) ==
    LET ref == Parse(value)
        envKey == r.envPrefix \o ref.SecretName
        e == LookupEnv(w, envKey)
        sm == GetSecret(w, ref.SecretName)
    IN  IF e.exists /\ e.value # <<>> THEN Parsed(e.value, <<envKey>>, <<>>)
        ELSE IF r.secretManagerEnabled /\ r.client # "nil" /\ sm.err = NilErr
        THEN Parsed(sm.value, <<envKey>>, <<ref.SecretName>>)
        ELSE LET fetched == IF r.secretManagerEnabled /\ r.client # "nil"
                            THEN <<ref.SecretName>> ELSE <<>>
             IN  IF ref.HasDefault THEN Parsed(ref.DefaultValue, <<envKey>>, fetched)
                 ELSE Returned(<<>>, SecretNotFoundError(ref.SecretName), <<envKey>>, fetched)

\* Resolver.ResolveSlice(ctx, values)
ResolveSlice(r, w, values) ==
    IF Len(values) = 0 THEN Returned(<<>>, NilErr, <<>>, <<>>)
    ELSE IF Len(values) = 1 /\ IsSecretReference(values[1])
    THEN ResolveArraySource(r, w, values[1])
    ELSE ResolveEach(r, w, values, Returned(<<>>, NilErr, <<>>, <<>>))

----------------------------------------------------------------------------
(* Spec: a Resolver built by NewResolver, an environment and a secret store *)
(* that change, and calls of Resolve and ResolveSlice.  op, arg, ret,      *)
(* envLookups and fetches describe the call in progress: calls are          *)
(* synchronous, so the world changes and the next call starts only after   *)
(* the caller has taken the result (Return).                               *)

KeyK == <<"K">>
PrefixP == <<"P">>
KeyPK == PrefixP \o KeyK

EnvNames == {KeyK, KeyPK}
EnvValues(name) ==
    IF name = KeyK
    THEN { <<>>, <<"e">>, <<"[", "e">>, <<"e", ",", "f">>, <<"[", "\"", "e", "\"", "]">> }
    ELSE { <<"p">> }
SecretNames == {KeyK}
SecretPayloads == { <<>>, <<"s">>, <<"[", "s">>, <<"s", ",", " ", "t">> }

Clients == {"nil", "bound"}
Options == {WithSecretManagerEnabled(TRUE), WithSecretManagerEnabled(FALSE), WithEnvPrefix(PrefixP)}

\* the keys and the fallbacks of the expressions
Keys == {KeyK, KeyPK, <<>>}
Fallbacks == { <<>>, <<"d">>, <<"[", "d">>, <<"a", ",", " ", "b">> }

\* "sm://" + key, and "||" + fallback when there is one
MkRef(key, hasFallback, fallback) ==
    SecretPrefix \o key \o (IF hasFallback THEN DefaultSeparator \o fallback ELSE <<>>)

Expressions ==
    { MkRef(KeyK, FALSE, <<>>),
      MkRef(KeyK, TRUE, <<"d">>),
      MkRef(KeyK, TRUE, <<>>),
      MkRef(KeyK, TRUE, <<"[", "d">>),
      MkRef(KeyK, TRUE, <<"a", ",", " ", "b">>),
      MkRef(<<" ", "K", " ">>, TRUE, <<"d">>),
      MkRef(<<" ", "K", " ">>, FALSE, <<>>),
      MkRef(KeyPK, FALSE, <<>>),
      MkRef(<<>>, FALSE, <<>>),
      MkRef(<<>>, TRUE, <<"d">>),
      KeyK,
      <<"s", "m", ":", "/">> \o KeyK \o DefaultSeparator \o <<"d">> }

\* the elements of the longer ResolveSlice inputs
SliceElements == {MkRef(KeyK, FALSE, <<>>), MkRef(KeyK, TRUE, <<"a", ",", " ", "b">>), KeyK}
SliceInputs == {<<x>> : x \in Expressions} \cup SeqsUpTo(SliceElements, MaxSlice)

World == [env |-> env, secrets |-> secrets, sourceUp |-> sourceUp, ctxDone |-> ctxDone]

Init ==
    /\ env = NoEnv
    /\ secrets = NoEnv
    /\ sourceUp = TRUE
    /\ ctxDone = FALSE
    /\ resolver \in {NewResolver(c, opts) : c \in Clients, opts \in SeqsUpTo(Options, MaxOpts)}
    /\ target = NoTarget
    /\ op = "init"
    /\ arg = <<>>
    /\ ret = NoRet
    /\ envLookups = <<>>
    /\ fetches = <<>>

\* no call is in progress
Idle == op = "init"

\* os.Setenv(name, value)
Setenv ==
    \E name \in EnvNames : \E value \in EnvValues(name) :
        /\ Idle
        /\ env' = [n \in DOMAIN env \cup {name} |-> IF n = name THEN value ELSE env[n]]
        /\ UNCHANGED <<secrets, sourceUp, ctxDone, resolver, target, call>>

\* os.Unsetenv(name)
Unsetenv ==
    \E name \in DOMAIN env :
        /\ Idle
        /\ env' = [n \in DOMAIN env \ {name} |-> env[n]]
        /\ UNCHANGED <<secrets, sourceUp, ctxDone, resolver, target, call>>

\* a secret version is added to the remote store
PutSecret ==
    \E name \in SecretNames : \E payload \in SecretPayloads :
        /\ Idle
        /\ secrets' = [n \in DOMAIN secrets \cup {name} |-> IF n = name THEN payload ELSE secrets[n]]
        /\ UNCHANGED <<env, sourceUp, ctxDone, resolver, target, call>>

\* a secret is removed from the remote store
DeleteSecret ==
    \E name \in DOMAIN secrets :
        /\ Idle
        /\ secrets' = [n \in DOMAIN secrets \ {name} |-> secrets[n]]
        /\ UNCHANGED <<env, sourceUp, ctxDone, resolver, target, call>>

\* the remote service stops or starts answering (network, authentication)
SourceChange ==
    /\ Idle
    /\ sourceUp' = ~sourceUp
    /\ UNCHANGED <<env, secrets, ctxDone, resolver, target, call>>

\* the caller's context is cancelled or times out
CancelCtx ==
    /\ Idle
    /\ ~ctxDone
    /\ ctxDone' = TRUE
    /\ UNCHANGED <<env, secrets, sourceUp, resolver, target, call>>

\* the caller takes a fresh context
NewCtx ==
    /\ Idle
    /\ ctxDone
    /\ ctxDone' = FALSE
    /\ UNCHANGED <<env, secrets, sourceUp, resolver, target, call>>

\* a plausible slip: a fetch that fails switches the Secret Manager off for
\* the calls that follow
CallResolveDisablesSource ==
    \E value \in Expressions :
        /\ Idle
        /\ op' = "Resolve"
        /\ arg' = value
        /\ ret' = [val |-> Resolve(resolver, World, value).val,
                   err |-> Resolve(resolver, World, value).err]
        /\ envLookups' = Resolve(resolver, World, value).looked
        /\ fetches' = Resolve(resolver, World, value).fetched
        /\ resolver' =
               IF /\ Resolve(resolver, World, value).fetched # <<>>
                  /\ GetSecret(World, Resolve(resolver, World, value).fetched[1]).err # NilErr
               THEN [resolver EXCEPT !.secretManagerEnabled = FALSE]
               ELSE resolver
        /\ UNCHANGED <<env, secrets, sourceUp, ctxDone, target>>

\* value, err := resolver.Resolve(ctx, value)
CallResolve ==
    \E value \in Expressions :
        /\ Idle
        /\ op' = "Resolve"
        /\ arg' = value
        /\ ret' = [val |-> Resolve(resolver, World, value).val,
                   err |-> Resolve(resolver, World, value).err]
        /\ envLookups' = Resolve(resolver, World, value).looked
        /\ fetches' = Resolve(resolver, World, value).fetched
        /\ UNCHANGED world

CallResolveSlice ==
    \E values \in SliceInputs :
        /\ Idle
        /\ op' = "ResolveSlice"
        /\ arg' = values
        /\ ret' = [val |-> ResolveSlice(resolver, World, values).val,
                   err |-> ResolveSlice(resolver, World, values).err]
        /\ envLookups' = ResolveSlice(resolver, World, values).looked
        /\ fetches' = ResolveSlice(resolver, World, values).fetched
        /\ UNCHANGED world

\* the caller has taken the result of the call
Return ==
    /\ ~Idle
    /\ op' = "init"
    /\ arg' = <<>>
    /\ ret' = NoRet
    /\ envLookups' = <<>>
    /\ fetches' = <<>>
    /\ target' = NoTarget
    /\ UNCHANGED <<env, secrets, sourceUp, ctxDone, resolver>>


----------------------------------------------------------------------------
(* What the claims about Resolve and ResolveSlice speak of, read off the   *)
(* text of the expression and the state of the world.                      *)

\* the expression is a managed reference
Managed(x) == StartsWithSm(x)
\* it has a fallback: a "||" after the prefix
HasFallback(x) == BarsAt(Rest(x)) # {}
FirstBar(x) == CHOOSE i \in BarsAt(Rest(x)) : \A j \in BarsAt(Rest(x)) : i <= j
\* the fallback: the text after the first "||"
FallbackOf(x) == SubSeq(Rest(x), FirstBar(x) + 2, Len(Rest(x)))
\* the key: the text between the prefix and the first "||", trimmed
KeyOf(x) ==
    IF HasFallback(x) THEN TrimSpace(SubSeq(Rest(x), 1, FirstBar(x) - 1))
    ELSE TrimSpace(Rest(x))

\* the environment holds a non-empty value under envPrefix + k
EnvHolds(k) ==
    /\ (resolver.envPrefix \o k) \in DOMAIN env
    /\ env[resolver.envPrefix \o k] # <<>>
\* the Secret Source is consulted
SourceConsulted == resolver.secretManagerEnabled /\ resolver.client = "bound"
\* a fetch of k succeeds
FetchSucceeds(k) == k # <<>> /\ sourceUp /\ ~ctxDone /\ k \in DOMAIN secrets
\* the Secret Source is consulted and gives a value for k
SourceGives(k) == SourceConsulted /\ FetchSucceeds(k)

\* the call was about the one expression x
About(x) ==
    \/ op = "Resolve" /\ x = arg
    \/ op = "ResolveSlice" /\ Len(arg) = 1 /\ x = arg[1] /\ Managed(x)
\* the expressions of the calls
Targets == Expressions

Succeeded(v) == ret = [val |-> v, err |-> NilErr]
Failed(e) == ret = [val |-> <<>>, err |-> e]

\* C1: Resolve of "sm://K||v3" returns the value of the highest tier that
\* gives one: the non-empty environment value under envPrefix+K whatever
\* the Secret Source and the fallback are; otherwise the value of a
\* successful fetch; the fallback only when neither gave a value.
C1_TierPriority ==
    op = "Resolve" =>
        \A k \in Keys : \A hasFb \in BOOLEAN : \A fb \in Fallbacks :
            arg = MkRef(k, hasFb, fb) =>
                /\ EnvHolds(k) => Succeeded(env[resolver.envPrefix \o k])
                /\ (~EnvHolds(k) /\ SourceGives(k)) => Succeeded(secrets[k])
                /\ (~EnvHolds(k) /\ ~SourceGives(k) /\ hasFb) => Succeeded(fb)
                /\ (hasFb /\ Succeeded(fb) /\ LookupEnv(World, resolver.envPrefix \o k).value # fb)
                       => (~EnvHolds(k) /\ (~SourceGives(k) \/ secrets[k] = fb))

\* the environment value won over a secret the source would have given and
\* over the fallback, under a prefix
C1_Witness ==
    /\ op = "Resolve"
    /\ arg = MkRef(KeyK, TRUE, <<"d">>)
    /\ resolver.envPrefix = PrefixP
    /\ SourceGives(KeyK)
    /\ secrets[KeyK] = <<"s">>
    /\ ret = [val |-> <<"p">>, err |-> NilErr]

\* the world with the variable n unset
WorldWithout(n) == [World EXCEPT !.env = [m \in DOMAIN env \ {n} |-> env[m]]]
SameAs(out) == ret.val = out.val /\ ret.err = out.err /\ fetches = out.fetched

\* C2: a variable that is present and empty counts as absent: Resolve and
\* the single-reference ResolveSlice return, and fetch, what they would with
\* the variable unset; with the Secret Source disabled a reference with a
\* fallback gives the fallback.
C2_EmptyEnvIsAbsent ==
    \A n \in DOMAIN env :
        env[n] = <<>> =>
            /\ op = "Resolve" => SameAs(Resolve(resolver, WorldWithout(n), arg))
            /\ (op = "ResolveSlice" /\ Len(arg) = 1 /\ Managed(arg[1])) =>
                   SameAs(ResolveSlice(resolver, WorldWithout(n), arg))
            /\ \A k \in Keys : \A fb \in Fallbacks :
                   (/\ op = "Resolve"
                    /\ arg = MkRef(k, TRUE, fb)
                    /\ n = resolver.envPrefix \o k
                    /\ ~resolver.secretManagerEnabled) => Succeeded(fb)

\* the empty variable was the one looked up, and the fallback came back
C2_Witness ==
    /\ op = "Resolve"
    /\ arg = MkRef(KeyK, TRUE, <<"d">>)
    /\ envLookups = <<KeyK>>
    /\ KeyK \in DOMAIN env
    /\ env[KeyK] = <<>>
    /\ ~resolver.secretManagerEnabled
    /\ ret = [val |-> <<"d">>, err |-> NilErr]

\* a fetch was made and failed
FetchFailed == fetches # <<>> /\ ~FetchSucceeds(fetches[1])

\* C3, as the specification states it: when the fetch fails and the
\* reference has a fallback the call succeeds, and the only error of such a
\* call is NotFoundError, with no fallback.
C3_FallbackAlwaysSucceeds ==
    \A x \in Targets :
        (About(x) /\ FetchFailed) =>
            /\ HasFallback(x) => ret.err = NilErr
            /\ ret.err # NilErr => (ret.err.kind = "SecretNotFoundError" /\ ~HasFallback(x))

\* C3, amended: a failed fetch is never returned.  With a fallback, Resolve
\* succeeds with it and ResolveSlice returns parseArrayValue of it: its list,
\* or its error when the fallback is a malformed bracketed array.  With no
\* fallback the call fails with NotFoundError of the key.
C3_FetchFailureAbsorbed ==
    /\ ret.err # EmptyNameError
    /\ \A x \in Targets :
           (About(x) /\ FetchFailed) =>
               /\ (HasFallback(x) /\ op = "Resolve") => Succeeded(FallbackOf(x))
               /\ (HasFallback(x) /\ op = "ResolveSlice") =>
                      /\ ret.val = parseArrayValue(FallbackOf(x)).val
                      /\ ret.err = parseArrayValue(FallbackOf(x)).err
               /\ ~HasFallback(x) => Failed(SecretNotFoundError(KeyOf(x)))

\* a fetch of an existing secret failed on a cancelled context, and
\* ResolveSlice gave the fallback as a list
C3_Witness ==
    /\ op = "ResolveSlice"
    /\ arg = <<MkRef(KeyK, TRUE, <<"a", ",", " ", "b">>)>>
    /\ fetches = <<KeyK>>
    /\ ctxDone /\ sourceUp /\ KeyK \in DOMAIN secrets
    /\ ret = [val |-> <<<<"a">>, <<"b">>>>, err |-> NilErr]

\* C4: Resolve fails exactly when the expression is a managed reference, the
\* environment gives no non-empty value, the Secret Source is not consulted
\* or its fetch fails, and there is no fallback; the error is then the
\* SecretNotFoundError of the trimmed key, which matches ErrSecretNotFound.
\* Otherwise Resolve returns a value and no error.
C4_FailsExactlyWhenExhausted ==
    op = "Resolve" =>
        LET exhausted ==
                /\ Managed(arg)
                /\ ~EnvHolds(KeyOf(arg))
                /\ ~SourceGives(KeyOf(arg))
                /\ ~HasFallback(arg)
        IN  /\ (ret.err # NilErr) = exhausted
            /\ exhausted =>
                   /\ Failed(SecretNotFoundError(KeyOf(arg)))
                   /\ ErrorsIs(ret.err, "ErrSecretNotFound")
                   /\ fetches = <<>> \/ FetchFailed

\* a reference with spaces around its key and no fallback failed, naming
\* the trimmed key, after a fetch that failed
C4_Witness ==
    /\ op = "Resolve"
    /\ arg = MkRef(<<" ", "K", " ">>, FALSE, <<>>)
    /\ fetches = <<KeyK>>
    /\ ret.err = SecretNotFoundError(KeyK)

\* C5: an expression that does not start with "sm://" is returned unchanged
\* with no error, and neither the environment nor the Secret Source is
\* consulted.
C5_LiteralUntouched ==
    (op = "Resolve" /\ ~Managed(arg)) =>
        /\ Succeeded(arg)
        /\ envLookups = <<>>
        /\ fetches = <<>>

\* the literal "K" came back although a variable and a secret of that name
\* exist
C5_Witness ==
    /\ op = "Resolve"
    /\ arg = KeyK
    /\ resolver.envPrefix = <<>>
    /\ EnvHolds(KeyK)
    /\ SourceGives(KeyK)
    /\ ret.val = KeyK

\* C10: for one managed reference e, ResolveSlice(<<e>>) is parseArrayValue
\* of the string Resolve(e) selects, its error included and with no fall to
\* a lower tier, and fails with NotFoundError exactly when Resolve(e) does.
C10_SliceOfOneReference ==
    (op = "ResolveSlice" /\ Len(arg) = 1 /\ Managed(arg[1])) =>
        LET one == Resolve(resolver, World, arg[1])
        IN  /\ one.err = NilErr =>
                   /\ ret.val = parseArrayValue(one.val).val
                   /\ ret.err = parseArrayValue(one.val).err
            /\ one.err # NilErr => Failed(one.err)
            /\ (ret.err.kind = "SecretNotFoundError") = (one.err # NilErr)
            /\ envLookups = one.looked
            /\ fetches = one.fetched

\* the environment value was a malformed array: its error came back and
\* neither the secret nor the fallback was used
C10_Witness ==
    /\ op = "ResolveSlice"
    /\ arg = <<MkRef(KeyK, TRUE, <<"d">>)>>
    /\ resolver.envPrefix = <<>>
    /\ KeyK \in DOMAIN env
    /\ env[KeyK] = <<"[", "e">>
    /\ SourceGives(KeyK)
    /\ ret.err.kind = "fmt.wrapError"
    /\ fetches = <<>>

----------------------------------------------------------------------------
(* ResolveSlice over several elements.                                     *)

\* the input is not the one-reference input that is array-parsed
Elementwise == op = "ResolveSlice" /\ ~(Len(arg) = 1 /\ Managed(arg[1]))
\* the positions whose element, resolved alone in this world, fails
FailingAt == {i \in 1..Len(arg) : Resolve(resolver, World, arg[i]).err # NilErr}
FirstFailing == CHOOSE i \in FailingAt : \A j \in FailingAt : i <= j
\* the managed references among the first n elements
ManagedUpTo(n) == {i \in 1..n : Managed(arg[i])}

\* C11: for an input that is empty, longer than one, or one literal,
\* ResolveSlice gives Resolve of each element at its position, unparsed
\* and in the same number, when every element resolves; otherwise it
\* returns the error of the first element that fails, with no result, and
\* looks up nothing after that element.
C11_ElementwiseResolve ==
    Elementwise =>
        IF FailingAt = {}
        THEN /\ ret.err = NilErr
             /\ Len(ret.val) = Len(arg)
             /\ \A i \in 1..Len(arg) : ret.val[i] = Resolve(resolver, World, arg[i]).val
        ELSE /\ Failed(Resolve(resolver, World, arg[FirstFailing]).err)
             /\ Len(envLookups) = Cardinality(ManagedUpTo(FirstFailing))

\* a comma-valued fallback resolved first, then the second element failed
\* and took the whole call with it
C11_Witness ==
    /\ op = "ResolveSlice"
    /\ arg = <<MkRef(KeyK, TRUE, <<"a", ",", " ", "b">>), MkRef(KeyK, FALSE, <<>>)>>
    /\ ret = [val |-> <<>>, err |-> SecretNotFoundError(KeyK)]
    /\ Len(envLookups) = 2

----------------------------------------------------------------------------
(* loader.go: the struct tag                                               *)

\* strings.TrimPrefix
TrimPrefix(s, prefix) == CutPrefix(s, prefix).after

RequiredOption == <<"r", "e", "q", "u", "i", "r", "e", "d">>
DefaultOption == <<"d", "e", "f", "a", "u", "l", "t", "=">>

\* tagInfo{secretName: name}
TagInfo(name) ==
    [secretName |-> name, defaultValue |-> <<>>, hasDefault |-> FALSE, required |-> FALSE]

\* a plausible slip: a default, once set, is kept
tagOptionFirstDefault(info, part) ==
    IF part = RequiredOption THEN [info EXCEPT !.required = TRUE]
    ELSE IF HasPrefix(part, DefaultOption) /\ ~info.hasDefault
    THEN [info EXCEPT !.defaultValue = TrimPrefix(part, DefaultOption), !.hasDefault = TRUE]
    ELSE info

\* the body of the loop of parseTag for the trimmed part
tagOption(info, part) ==
    IF part = RequiredOption THEN [info EXCEPT !.required = TRUE]
    ELSE IF HasPrefix(part, DefaultOption)
    THEN [info EXCEPT !.defaultValue = TrimPrefix(part, DefaultOption), !.hasDefault = TRUE]
    ELSE info

RECURSIVE tagOptions(_, _, _)
\* the loop of parseTag from part i on
tagOptions(parts, i, info) ==
    IF i > Len(parts) THEN info
    ELSE tagOptions(parts, i + 1, tagOption(info, TrimSpace(parts[i])))

\* a plausible slip: the default is everything after the first "default=",
\* commas included
parseTagWholeDefault(tag) ==
    LET parts == Split(tag, <<",">>)
        info == tagOptions(parts, 2, TagInfo(TrimSpace(parts[1])))
        at == Index(tag, DefaultOption)
    IN  IF info.hasDefault
        THEN [info EXCEPT !.defaultValue =
                  TrimSpace(SubSeq(tag, at + Len(DefaultOption), Len(tag)))]
        ELSE info

parseTag(tag) ==
    tagOptions(Split(tag, <<",">>), 2, TagInfo(TrimSpace(Split(tag, <<",">>)[1])))

----------------------------------------------------------------------------
(* TagSpec: parseTag applied to every tag made of at most MaxTagTokens of  *)
(* a key, a comma, a blank, the two options, a default and a value.        *)

TagTokens ==
    { <<"K">>, <<",">>, <<" ">>, RequiredOption, DefaultOption,
      DefaultOption \o <<"v">>, <<"v">> }
\* the tags of at most n tokens
TagInputs(n) == {Flatten(ts) : ts \in SeqsUpTo(TagTokens, n)}

TagInit ==
    /\ IdleWorld
    /\ op = "init"
    /\ arg \in TagInputs(MaxTagTokens)
    /\ ret = NoRet
    /\ envLookups = <<>>
    /\ fetches = <<>>

CallParseTag ==
    /\ op = "init"
    /\ op' = "parseTag"
    /\ ret' = parseTag(arg)
    /\ UNCHANGED <<world, arg, envLookups, fetches>>

TagNext == CallParseTag

TagSpec == TagInit /\ [][TagNext]_vars

\* the k-th comma-separated segment of the tag, trimmed
Segment(k) == TrimSpace(PiecesOf(arg)[k])
\* the segments after the first that are "required", and that start with
\* "default="
RequiredSegments == {k \in 2..Len(PiecesOf(arg)) : Segment(k) = RequiredOption}
DefaultSegments ==
    {k \in 2..Len(PiecesOf(arg)) :
        /\ Segment(k) # RequiredOption
        /\ Len(Segment(k)) >= Len(DefaultOption)
        /\ SubSeq(Segment(k), 1, Len(DefaultOption)) = DefaultOption}
LastDefault == CHOOSE k \in DefaultSegments : \A j \in DefaultSegments : j <= k

RECURSIVE JoinFrom(_, _, _)
\* "," and the piece the order p puts at place k, for every place from k on
JoinFrom(pieces, p, k) ==
    IF k > Len(pieces) THEN <<>>
    ELSE <<",">> \o pieces[p[k]] \o JoinFrom(pieces, p, k + 1)
\* the tag with its segments after the key in the order p
Reordered(p) == PiecesOf(arg)[1] \o JoinFrom(PiecesOf(arg), p, 2)
\* the orders of the segments after the key, and those that keep the
\* "default=" segments in the order they have in the tag
Orders == Permutations(2..Len(PiecesOf(arg)))
KeepsDefaults(p) ==
    \A i, j \in 2..Len(PiecesOf(arg)) :
        (i < j /\ p[i] \in DefaultSegments /\ p[j] \in DefaultSegments) => p[i] < p[j]
FirstDefault == CHOOSE k \in DefaultSegments : \A j \in DefaultSegments : k <= j
\* the text of segment k after "default="
DefaultIn(k) == SubSeq(Segment(k), Len(DefaultOption) + 1, Len(Segment(k)))

\* C24 as stated: parseTag gives the same result for every order of the
\* segments after the key, and of several "default=" segments the first is
\* the default.
C24_AnyOrderFirstDefault ==
    op = "parseTag" =>
        /\ \A p \in Orders : parseTag(Reordered(p)) = ret
        /\ DefaultSegments # {} => ret.defaultValue = DefaultIn(FirstDefault)

\* C24: parseTag gives the same result for every order of the segments
\* after the key that keeps the "default=" segments in their relative
\* order, so for every order when there is at most one; of several
\* "default=" segments the last is the default.
C24_OrderButForDefaults ==
    op = "parseTag" =>
        /\ \A p \in Orders : KeepsDefaults(p) => parseTag(Reordered(p)) = ret
        /\ DefaultSegments # {} => ret.defaultValue = DefaultIn(LastDefault)

\* of "default=v" and "default=" after it, the second was taken: the
\* default is set and empty
C24_Witness ==
    /\ op = "parseTag"
    /\ arg = <<"K", ",">> \o DefaultOption \o <<"v", ",">> \o DefaultOption
    /\ ret = [secretName |-> <<"K">>, defaultValue |-> <<>>,
              hasDefault |-> TRUE, required |-> FALSE]

----------------------------------------------------------------------------
(* strconv and reflect, as setField uses them.  The texts of the model are *)
(* a few characters long: the range error of a 64-bit parse, and the       *)
(* exponent, hexadecimal, inf and nan spellings of a float, do not occur.  *)

\* the digit of value d is Digits[d + 1]
Digits == <<"0", "1", "2", "3", "4", "5", "6", "7", "8", "9">>
IsDigit(c) == \E d \in DOMAIN Digits : Digits[d] = c
DigitValue(c) == (CHOOSE d \in DOMAIN Digits : Digits[d] = c) - 1
AllDigits(s) == s # <<>> /\ \A i \in 1..Len(s) : IsDigit(s[i])

RECURSIVE Decimal(_)
\* the number a text of digits denotes in base 10
Decimal(s) ==
    IF s = <<>> THEN 0
    ELSE 10 * Decimal(SubSeq(s, 1, Len(s) - 1)) + DigitValue(s[Len(s)])

HasSign(s) == s # <<>> /\ s[1] \in {"+", "-"}
Unsigned(s) == IF HasSign(s) THEN Tail(s) ELSE s
Signed(s, n) == IF HasSign(s) /\ s[1] = "-" THEN 0 - n ELSE n

\* strconv.ParseUint(s, 10, 64): digits only, no sign
ParseUint(s) ==
    IF AllDigits(s) THEN [val |-> Decimal(s), ok |-> TRUE]
    ELSE [val |-> 0, ok |-> FALSE]

\* strconv.ParseInt(s, 10, 64): an optional sign, then digits
ParseInt(s) ==
    IF AllDigits(Unsigned(s)) THEN [val |-> Signed(s, Decimal(Unsigned(s))), ok |-> TRUE]
    ELSE [val |-> 0, ok |-> FALSE]

RECURSIVE Float(_, _)
\* the float64 nearest to num / 10^scale, named by that decimal in lowest
\* terms (short decimals name distinct floats, of 32 bits as of 64)
Float(num, scale) ==
    IF scale > 0 /\ num % 10 = 0 THEN Float(num \div 10, scale - 1)
    ELSE [num |-> num, scale |-> scale]

\* the digits of a decimal mantissa before and after its point
Points(s) == {i \in 1..Len(s) : s[i] = "."}
WholePart(s) == IF Points(s) = {} THEN s ELSE SubSeq(s, 1, (CHOOSE i \in Points(s) : TRUE) - 1)
FracPart(s) ==
    IF Points(s) = {} THEN <<>> ELSE SubSeq(s, (CHOOSE i \in Points(s) : TRUE) + 1, Len(s))

\* strconv.ParseFloat(s, 64): an optional sign, digits with at most one
\* point and at least one digit
ParseFloat(s) ==
    IF /\ Cardinality(Points(Unsigned(s))) <= 1
       /\ AllDigits(WholePart(Unsigned(s)) \o FracPart(Unsigned(s)))
    THEN [val |-> Float(Signed(s, Decimal(WholePart(Unsigned(s)) \o FracPart(Unsigned(s)))),
                        Len(FracPart(Unsigned(s)))),
          ok |-> TRUE]
    ELSE [val |-> Float(0, 0), ok |-> FALSE]

TrueTexts ==
    { <<"1">>, <<"t">>, <<"T">>, <<"T", "R", "U", "E">>, <<"t", "r", "u", "e">>,
      <<"T", "r", "u", "e">> }
FalseTexts ==
    { <<"0">>, <<"f">>, <<"F">>, <<"F", "A", "L", "S", "E">>, <<"f", "a", "l", "s", "e">>,
      <<"F", "a", "l", "s", "e">> }

\* strconv.ParseBool
ParseBool(s) ==
    IF s \in TrueTexts THEN [val |-> TRUE, ok |-> TRUE]
    ELSE IF s \in FalseTexts THEN [val |-> FALSE, ok |-> TRUE]
    ELSE [val |-> FALSE, ok |-> FALSE]

\* reflect.Kind of the fields
SignedKinds == {"int", "int8", "int16", "int32", "int64"}
UnsignedKinds == {"uint", "uint8", "uint16", "uint32", "uint64"}
FloatKinds == {"float32", "float64"}
\* the kinds whose width the numbers of the model can exceed
NarrowBits(kind) == IF kind \in {"int8", "uint8"} THEN 8 ELSE 16
IsNarrow(kind) == kind \in {"int8", "uint8", "int16", "uint16"}

\* reflect.Value.SetInt: the 64-bit value is converted to the field's type,
\* which keeps its low bits
SetInt(kind, x) ==
    IF IsNarrow(kind)
    THEN ((x + 2^(NarrowBits(kind) - 1)) % 2^NarrowBits(kind)) - 2^(NarrowBits(kind) - 1)
    ELSE x

\* reflect.Value.SetUint
SetUint(kind, x) == IF IsNarrow(kind) THEN x % 2^NarrowBits(kind) ELSE x

\* a slice value: nil, or the elements it holds
NilSlice == [isNil |-> TRUE, elems |-> <<>>]
SliceOf(elems) == [isNil |-> FALSE, elems |-> elems]

\* the zero value of a field of the kind
Zero(kind) ==
    IF kind = "string" THEN <<>>
    ELSE IF kind \in SignedKinds \cup UnsignedKinds THEN 0
    ELSE IF kind \in FloatKinds THEN Float(0, 0)
    ELSE IF kind = "bool" THEN FALSE
    ELSE NilSlice

----------------------------------------------------------------------------
(* errors.go                                                               *)

ErrInvalidTarget == [kind |-> "ErrInvalidTarget", detail |-> <<>>, unwrap |-> "ErrInvalidTarget"]

\* detail is the SecretName
RequiredFieldError(fieldName, secretName) ==
    [kind |-> "RequiredFieldError", detail |-> secretName, field |-> fieldName,
     unwrap |-> "ErrRequiredFieldMissing"]

UnsupportedTypeError(fieldName, typeName) ==
    [kind |-> "UnsupportedTypeError", detail |-> <<>>, field |-> fieldName,
     type |-> typeName, unwrap |-> "ErrUnsupportedType"]

\* fmt.Errorf("failed to parse ... for field %s: %w", fieldType.Name, err)
WrapNumError(fieldName) ==
    [kind |-> "fmt.wrapError", detail |-> <<>>, field |-> fieldName,
     unwrap |-> "strconv.NumError"]

----------------------------------------------------------------------------
(* loader.go: Load, loadStruct, setField.  A target is [shape, fields,     *)
(* vals]: what was handed to Load, the fields of the struct type in        *)
(* declaration order as [name, kind, exported, tag], and their values.     *)

\* what setField did: its error, or the value it gave the field
SetTo(value, res) ==
    [err |-> NilErr, assigned |-> TRUE, value |-> value,
     looked |-> res.looked, fetched |-> res.fetched]
SetFailed(err, res) ==
    [err |-> err, assigned |-> FALSE, value |-> <<>>,
     looked |-> res.looked, fetched |-> res.fetched]

\* the cases of setField, res being what Resolve or ResolveSlice returned
setString(res) ==
    IF res.err # NilErr THEN SetFailed(res.err, res) ELSE SetTo(res.val, res)

setInt(f, res) ==
    IF res.err # NilErr THEN SetFailed(res.err, res)
    ELSE IF ~ParseInt(res.val).ok THEN SetFailed(WrapNumError(f.name), res)
    ELSE SetTo(SetInt(f.kind, ParseInt(res.val).val), res)

setUint(f, res) ==
    IF res.err # NilErr THEN SetFailed(res.err, res)
    ELSE IF ~ParseUint(res.val).ok THEN SetFailed(WrapNumError(f.name), res)
    ELSE SetTo(SetUint(f.kind, ParseUint(res.val).val), res)

setFloat(f, res) ==
    IF res.err # NilErr THEN SetFailed(res.err, res)
    ELSE IF ~ParseFloat(res.val).ok THEN SetFailed(WrapNumError(f.name), res)
    ELSE SetTo(ParseFloat(res.val).val, res)

setBool(f, res) ==
    IF res.err # NilErr THEN SetFailed(res.err, res)
    ELSE IF ~ParseBool(res.val).ok THEN SetFailed(WrapNumError(f.name), res)
    ELSE SetTo(ParseBool(res.val).val, res)

setSlice(res) ==
    IF res.err # NilErr THEN SetFailed(res.err, res) ELSE SetTo(SliceOf(res.val), res)

NoLookups == [looked |-> <<>>, fetched |-> <<>>]

\* a plausible slip: a []string field is resolved as one string
setFieldSliceAsScalar(r, w, f, refString) ==
    IF f.kind = "string" THEN setString(Resolve(r, w, refString))
    ELSE IF f.kind \in SignedKinds THEN setInt(f, Resolve(r, w, refString))
    ELSE IF f.kind \in UnsignedKinds THEN setUint(f, Resolve(r, w, refString))
    ELSE IF f.kind \in FloatKinds THEN setFloat(f, Resolve(r, w, refString))
    ELSE IF f.kind = "bool" THEN setBool(f, Resolve(r, w, refString))
    ELSE IF f.kind = "[]string"
    THEN setSlice([Resolve(r, w, refString) EXCEPT !.val = <<Resolve(r, w, refString).val>>])
    ELSE SetFailed(UnsupportedTypeError(f.name, f.kind), NoLookups)

setField(r, w, f, refString) ==
    IF f.kind = "string" THEN setString(Resolve(r, w, refString))
    ELSE IF f.kind \in SignedKinds THEN setInt(f, Resolve(r, w, refString))
    ELSE IF f.kind \in UnsignedKinds THEN setUint(f, Resolve(r, w, refString))
    ELSE IF f.kind \in FloatKinds THEN setFloat(f, Resolve(r, w, refString))
    ELSE IF f.kind = "bool" THEN setBool(f, Resolve(r, w, refString))
    ELSE IF f.kind = "[]string" THEN setSlice(ResolveSlice(r, w, <<refString>>))
    ELSE SetFailed(UnsupportedTypeError(f.name, f.kind), NoLookups)

\* fmt.Sprintf("sm://%s||%s", ...) or fmt.Sprintf("sm://%s", ...)
refStringOf(tagInfo) ==
    IF tagInfo.hasDefault
    THEN SecretPrefix \o tagInfo.secretName \o DefaultSeparator \o tagInfo.defaultValue
    ELSE SecretPrefix \o tagInfo.secretName

\* what loadStruct has done so far: the error it returns, the values of the
\* fields, the lookups made
Loaded(err, vals, looked, fetched) ==
    [err |-> err, vals |-> vals, looked |-> looked, fetched |-> fetched]

\* a plausible slip: every failure is fatal, required or not
afterSetFieldAlwaysFatal(f, i, tagInfo, set, acc) ==
    IF set.err # NilErr
    THEN Loaded(RequiredFieldError(f.name, tagInfo.secretName), acc.vals,
                acc.looked \o set.looked, acc.fetched \o set.fetched)
    ELSE Loaded(NilErr, [acc.vals EXCEPT ![i] = set.value],
                acc.looked \o set.looked, acc.fetched \o set.fetched)

\* a plausible slip: the error of a required field is returned as it is
afterSetFieldReturnsCause(f, i, tagInfo, set, acc) ==
    IF set.err # NilErr
    THEN IF tagInfo.required
         THEN Loaded(set.err, acc.vals, acc.looked \o set.looked, acc.fetched \o set.fetched)
         ELSE Loaded(NilErr, acc.vals, acc.looked \o set.looked, acc.fetched \o set.fetched)
    ELSE Loaded(NilErr, [acc.vals EXCEPT ![i] = set.value],
                acc.looked \o set.looked, acc.fetched \o set.fetched)

\* lines 103-112: the outcome of setField for field i
afterSetField(f, i, tagInfo, set, acc) ==
    IF set.err # NilErr
    THEN IF tagInfo.required
         THEN Loaded(RequiredFieldError(f.name, tagInfo.secretName), acc.vals,
                     acc.looked \o set.looked, acc.fetched \o set.fetched)
         ELSE Loaded(NilErr, acc.vals, acc.looked \o set.looked, acc.fetched \o set.fetched)
    ELSE Loaded(NilErr, [acc.vals EXCEPT ![i] = set.value],
                acc.looked \o set.looked, acc.fetched \o set.fetched)

\* lines 88-103
withTag(r, w, f, i, tagInfo, acc) ==
    IF tagInfo.secretName = <<>> THEN acc
    ELSE afterSetField(f, i, tagInfo, setField(r, w, f, refStringOf(tagInfo)), acc)

\* a plausible slip: the tag "-" is read as a key
loadFieldDashIsKey(r, w, f, i, acc) ==
    IF ~f.exported THEN acc
    ELSE IF f.tag = <<>> THEN acc
    ELSE withTag(r, w, f, i, parseTag(f.tag), acc)

\* the body of the loop of loadStruct for field i
loadField(r, w, f, i, acc) ==
    IF ~f.exported THEN acc
    ELSE IF f.tag = <<>> \/ f.tag = <<"-">> THEN acc
    ELSE withTag(r, w, f, i, parseTag(f.tag), acc)

RECURSIVE loadFieldsGoesOn(_, _, _, _, _)
\* a plausible slip: the loop goes on after a required field has failed
loadFieldsGoesOn(r, w, fields, i, acc) ==
    IF i > Len(fields) THEN acc
    ELSE loadFieldsGoesOn(r, w, fields, i + 1, loadField(r, w, fields[i], i, acc))

RECURSIVE loadFields(_, _, _, _, _)
\* the loop of loadStruct from field i on; a RequiredFieldError returns
loadFields(r, w, fields, i, acc) ==
    IF i > Len(fields) \/ acc.err # NilErr THEN acc
    ELSE loadFields(r, w, fields, i + 1, loadField(r, w, fields[i], i, acc))

loadStruct(r, w, t) == loadFields(r, w, t.fields, 1, Loaded(NilErr, t.vals, <<>>, <<>>))

\* reflect.ValueOf(target).Kind() and .Elem().Kind() for the shapes of target
KindOf(shape) ==
    IF shape \in {"*struct", "*string", "nil *struct"} THEN "Pointer"
    ELSE IF shape = "struct" THEN "Struct"
    ELSE "Invalid"
ElemKindOf(shape) ==
    IF shape = "*struct" THEN "Struct"
    ELSE IF shape = "*string" THEN "String"
    ELSE "Invalid"

\* a plausible slip: only the pointer is checked, not what it points to
LoadChecksPointerOnly(r, w, t) ==
    IF KindOf(t.shape) # "Pointer"
    THEN Loaded(ErrInvalidTarget, t.vals, <<>>, <<>>)
    ELSE loadStruct(r, w, t)

Load(r, w, t) ==
    IF KindOf(t.shape) # "Pointer" \/ ElemKindOf(t.shape) # "Struct"
    THEN Loaded(ErrInvalidTarget, t.vals, <<>>, <<>>)
    ELSE loadStruct(r, w, t)

----------------------------------------------------------------------------
(* LoadSpec: Load, Resolve and ResolveSlice called in a world drawn from   *)
(* the values below, Load on one-field structs of every kind and tag and   *)
(* on structs of up to MaxFields fields, zeroed or already populated.      *)

\* the tag "key,default=value,required", the options as asked
MkTag(key, hasDefault, default, required) ==
    key \o (IF hasDefault THEN <<",">> \o DefaultOption \o default ELSE <<>>)
        \o (IF required THEN <<",">> \o RequiredOption ELSE <<>>)

\* a field of a struct type, to be named by its place
Field(kind, exported, tag) == [name |-> 0, kind |-> kind, exported |-> exported, tag |-> tag]

SupportedKinds == {"string", "int", "int8", "uint", "uint8", "float64", "float32", "bool", "[]string"}
UnsupportedKinds == {"[]int", "map[string]string"}
TagDefaults == { <<"1">>, <<"x">>, <<"[", "x">> }

\* the tags that name the key K
KeyTags ==
    {MkTag(KeyK, FALSE, <<>>, req) : req \in BOOLEAN}
        \cup {MkTag(KeyK, TRUE, d, req) : d \in TagDefaults, req \in BOOLEAN}
\* the tags that name no key, and the missing tag
SkipTags ==
    { <<>>, <<"-">>, MkTag(<<>>, FALSE, <<>>, TRUE), MkTag(<<" ">>, TRUE, <<"1">>, TRUE) }

LoadFields ==
    {Field(k, TRUE, tg) : k \in SupportedKinds, tg \in KeyTags}
        \cup {Field(k, TRUE, MkTag(KeyK, FALSE, <<>>, req)) : k \in UnsupportedKinds, req \in BOOLEAN}
        \cup {Field(k, TRUE, tg) : k \in {"string", "int"}, tg \in SkipTags}
        \cup {Field(k, FALSE, MkTag(KeyK, TRUE, <<"1">>, TRUE)) : k \in {"string", "int"}}

\* the fields of the longer structs
CoreFields ==
    { Field("string", TRUE, MkTag(KeyK, TRUE, <<"1">>, FALSE)),
      Field("string", TRUE, MkTag(KeyK, FALSE, <<>>, TRUE)),
      Field("int", TRUE, MkTag(KeyK, TRUE, <<"x">>, TRUE)),
      Field("int", TRUE, MkTag(KeyK, FALSE, <<>>, FALSE)),
      Field("[]string", TRUE, MkTag(KeyK, TRUE, <<"[", "x">>, TRUE)),
      Field("string", TRUE, MkTag(<<>>, FALSE, <<>>, TRUE)) }

\* the struct type with the fields, named 1, 2, ... in declaration order
StructOf(fs) == [i \in DOMAIN fs |-> [fs[i] EXCEPT !.name = i]]
StructTypes == {StructOf(fs) : fs \in {<<f>> : f \in LoadFields} \cup SeqsUpTo(CoreFields, MaxFields)}

\* a value of the kind that is not its zero value
Populated(kind) ==
    IF kind = "string" THEN <<"o">>
    ELSE IF kind \in SignedKinds \cup UnsignedKinds THEN 9
    ELSE IF kind \in FloatKinds THEN Float(9, 0)
    ELSE IF kind = "bool" THEN TRUE
    ELSE SliceOf(<<<<"o">>>>)

ZeroStruct(fs) == [i \in DOMAIN fs |-> Zero(fs[i].kind)]
PopulatedStruct(fs) == [i \in DOMAIN fs |-> Populated(fs[i].kind)]

\* &cfg for a zeroed and for a populated cfg; cfg itself; a pointer to a
\* string; nil; a nil pointer to a struct
LoadTargets ==
    {[shape |-> "*struct", fields |-> fs, vals |-> ZeroStruct(fs)] : fs \in StructTypes}
        \cup {[shape |-> "*struct", fields |-> fs, vals |-> PopulatedStruct(fs)] : fs \in StructTypes}
        \cup {[shape |-> "struct", fields |-> fs, vals |-> PopulatedStruct(fs)] :
                 fs \in {StructOf(<<f>>) : f \in CoreFields}}
        \cup {[shape |-> "nil *struct", fields |-> fs, vals |-> <<>>] :
                 fs \in {StructOf(<<f>>) : f \in CoreFields}}
        \cup { [shape |-> "*string", fields |-> <<>>, vals |-> <<<<"o">>>>],
               [shape |-> "nil", fields |-> <<>>, vals |-> <<>>] }

\* what the variables K and PK and the secret K can hold: nothing (<<>>) or
\* one value (<<v>>)
LoadEnvK ==
    { <<>>, <<<<>>>>, <<<<"1">>>>, <<<<"3", "0", "0">>>>, <<<<"-", "1">>>>, <<<<"x">>>>,
      <<<<"1", ".", "5">>>>, <<<<"[", "x">>>>, <<<<"a", ",", "b">>>> }
LoadEnvPK == { <<>>, <<<<"7">>>> }
LoadSecretK == { <<>>, <<<<"2">>>> }

EnvOf(k, pk) ==
    [n \in {m \in EnvNames : (m = KeyK /\ k # <<>>) \/ (m = KeyPK /\ pk # <<>>)} |->
        IF n = KeyK THEN k[1] ELSE pk[1]]
SecretsOf(k) == [n \in {m \in SecretNames : k # <<>>} |-> k[1]]

LoadInit ==
    /\ env \in {EnvOf(k, pk) : k \in LoadEnvK, pk \in LoadEnvPK}
    /\ secrets \in {SecretsOf(k) : k \in LoadSecretK}
    /\ sourceUp = TRUE
    /\ ctxDone = FALSE
    /\ resolver \in {NewResolver(c, opts) : c \in Clients, opts \in SeqsUpTo(Options, MaxOpts)}
    /\ target = NoTarget
    /\ op = "init"
    /\ arg = <<>>
    /\ ret = NoRet
    /\ envLookups = <<>>
    /\ fetches = <<>>

\* the call returns out: its error to the caller, its values in the target
LoadReturns(t, out) ==
    /\ op' = "Load"
    /\ arg' = t
    /\ ret' = [val |-> <<>>, err |-> out.err]
    /\ target' = [t EXCEPT !.vals = out.vals]
    /\ envLookups' = out.looked
    /\ fetches' = out.fetched

\* err := loader.Load(ctx, t)
CallLoad ==
    \E t \in LoadTargets :
        /\ Idle
        /\ LoadReturns(t, Load(resolver, World, t))
        /\ UNCHANGED <<env, secrets, sourceUp, ctxDone, resolver>>

LoadNext ==
    \/ CallLoad
    \/ CallResolve
    \/ CallResolveSlice
    \/ Return

LoadSpec == LoadInit /\ [][LoadNext]_vars

----------------------------------------------------------------------------
(* Spec: the world changes between calls of Resolve, of ResolveSlice and   *)
(* of Load on the one-field structs.                                       *)

SessionTargets ==
    {[shape |-> "*struct", fields |-> StructOf(<<f>>), vals |-> ZeroStruct(<<f>>)] : f \in CoreFields}
        \cup {[shape |-> "*struct", fields |-> StructOf(<<f>>), vals |-> PopulatedStruct(<<f>>)] :
                 f \in CoreFields}

\* err := loader.Load(ctx, t) between changes of the world
CallLoadInSession ==
    \E t \in SessionTargets :
        /\ Idle
        /\ LoadReturns(t, Load(resolver, World, t))
        /\ UNCHANGED <<env, secrets, sourceUp, ctxDone, resolver>>

Next ==
    \/ Setenv
    \/ Unsetenv
    \/ PutSecret
    \/ DeleteSecret
    \/ SourceChange
    \/ CancelCtx
    \/ NewCtx
    \/ CallResolve
    \/ CallResolveSlice
    \/ CallLoadInSession
    \/ Return

Spec == Init /\ [][Next]_vars

----------------------------------------------------------------------------
(* What the claims about Load speak of, read off the tag and the kind of   *)
(* a field and the state of the world, with the texts of the model and     *)
(* what they denote listed by hand.                                        *)

\* Load was handed a pointer to a struct
Loading == op = "Load" /\ arg.shape = "*struct"
Places == 1..Len(arg.fields)

\* the key of a tag: its text before the first comma, trimmed
KeyOfTag(tag) ==
    IF \E i \in DOMAIN tag : tag[i] = ","
    THEN TrimSpace(SubSeq(tag, 1, (CHOOSE i \in DOMAIN tag :
                                      tag[i] = "," /\ \A j \in 1..(i - 1) : tag[j] # ",") - 1))
    ELSE TrimSpace(tag)
\* the field is passed over
Skipped(f) == ~f.exported \/ f.tag = <<>> \/ f.tag = <<"-">> \/ KeyOfTag(f.tag) = <<>>

\* the options a tag of the key K was built with
TagOptions == [hasDefault : BOOLEAN, default : TagDefaults \cup {<<>>}, required : BOOLEAN]
OptionsOf(f) ==
    CHOOSE o \in TagOptions : f.tag = MkTag(KeyK, o.hasDefault, o.default, o.required)
Required(f) == OptionsOf(f).required

\* a tier gives a text for the key K of the field
Resolves(f) == EnvHolds(KeyK) \/ SourceGives(KeyK) \/ OptionsOf(f).hasDefault
\* the text of the highest tier that gives one
TextFor(f) ==
    IF EnvHolds(KeyK) THEN env[resolver.envPrefix \o KeyK]
    ELSE IF SourceGives(KeyK) THEN secrets[KeyK]
    ELSE OptionsOf(f).default

\* the texts of the model that are numbers, with the number; the decimals,
\* with the float; the booleans; the lists
NumberTexts ==
    { <<<<"1">>, 1>>, <<<<"2">>, 2>>, <<<<"7">>, 7>>, <<<<"3", "0", "0">>, 300>>,
      <<<<"-", "1">>, 0 - 1>> }
IsNumber(text) == \E p \in NumberTexts : p[1] = text
NumberOf(text) == (CHOOSE p \in NumberTexts : p[1] = text)[2]
IsDecimal(text) == IsNumber(text) \/ text = <<"1", ".", "5">>
DecimalOf(text) ==
    IF IsNumber(text) THEN [num |-> NumberOf(text), scale |-> 0] ELSE [num |-> 15, scale |-> 1]
IsBoolean(text) == text = <<"1">>
IsMalformedArray(text) == text = <<"[", "x">>
ListOf(text) ==
    IF text = <<>> THEN <<>>
    ELSE IF text = <<"a", ",", "b">> THEN <<<<"a">>, <<"b">>>>
    ELSE <<text>>

\* the numbers a field of the kind can hold
Fits(kind, n) ==
    IF kind = "int8" THEN n \in (0 - 128)..127
    ELSE IF kind = "uint8" THEN n \in 0..255
    ELSE IF kind \in UnsignedKinds THEN n >= 0
    ELSE TRUE

\* the text is a value of the kind, and that value
Coerces(kind, text) ==
    IF kind = "string" THEN TRUE
    ELSE IF kind \in SignedKinds \cup UnsignedKinds THEN IsNumber(text) /\ Fits(kind, NumberOf(text))
    ELSE IF kind \in FloatKinds THEN IsDecimal(text)
    ELSE IF kind = "bool" THEN IsBoolean(text)
    ELSE kind = "[]string" /\ ~IsMalformedArray(text)
Coerced(kind, text) ==
    IF kind = "string" THEN text
    ELSE IF kind \in SignedKinds \cup UnsignedKinds THEN NumberOf(text)
    ELSE IF kind \in FloatKinds THEN DecimalOf(text)
    ELSE IF kind = "bool" THEN TRUE
    ELSE SliceOf(ListOf(text))

\* the text is not a value of the kind at all: not a number, a negative
\* number for an unsigned kind, not a boolean, a malformed array
CoercionFails(kind, text) ==
    IF kind \in SignedKinds THEN ~IsNumber(text)
    ELSE IF kind \in UnsignedKinds THEN ~IsNumber(text) \/ NumberOf(text) < 0
    ELSE IF kind \in FloatKinds THEN ~IsDecimal(text)
    ELSE IF kind = "bool" THEN ~IsBoolean(text)
    ELSE kind = "[]string" /\ IsMalformedArray(text)

\* the field gets a value; the field fails
Succeeds(f) == ~Skipped(f) /\ f.kind \in SupportedKinds /\ Resolves(f) /\ Coerces(f.kind, TextFor(f))
Fails(f) ==
    /\ ~Skipped(f)
    /\ \/ f.kind \in UnsupportedKinds
       \/ ~Resolves(f)
       \/ CoercionFails(f.kind, TextFor(f))

\* the required fields that fail, and the fields Load gets to
Aborting == {i \in Places : Fails(arg.fields[i]) /\ Required(arg.fields[i])}
Reached(i) == \A j \in 1..(i - 1) : ~(Fails(arg.fields[j]) /\ Required(arg.fields[j]))
\* the fields Load looks the environment up for
LookedUp == {i \in Places : Reached(i) /\ ~Skipped(arg.fields[i]) /\ arg.fields[i].kind \in SupportedKinds}

\* C12: Load gives every reached, settable field of a supported kind with a
\* key the value its resolution denotes: the text of the environment
\* variable envPrefix+key when non-empty, else of the Secret Source, else of
\* the default, as a string, the number, float or boolean it spells, or,
\* for a []string field, the list ResolveSlice makes of that one text
\* (split at commas).
C12_FieldGetsResolution ==
    Loading =>
        \A i \in Places :
            (Reached(i) /\ Succeeds(arg.fields[i])) =>
                target.vals[i] = Coerced(arg.fields[i].kind, TextFor(arg.fields[i]))

\* one environment variable holding a comma list filled a []string field
\* that held something else
C12_Witness ==
    /\ Loading
    /\ Len(arg.fields) = 1
    /\ arg.fields[1].kind = "[]string"
    /\ arg.vals[1] = SliceOf(<<<<"o">>>>)
    /\ EnvHolds(KeyK)
    /\ resolver.envPrefix = <<>>
    /\ env[KeyK] = <<"a", ",", "b">>
    /\ target.vals[1] = SliceOf(<<<<"a">>, <<"b">>>>)
    /\ ret.err = NilErr

\* C15: for a target that is not a non-nil pointer to a struct (a struct by
\* value, a pointer to a string, nil, a nil struct pointer) Load returns
\* ErrInvalidTarget, looks nothing up and leaves the target as it was.
C15_InvalidTarget ==
    (op = "Load" /\ arg.shape # "*struct") =>
        /\ ret.err = ErrInvalidTarget
        /\ envLookups = <<>>
        /\ fetches = <<>>
        /\ target = arg

\* a nil struct pointer was refused although its required field would have
\* resolved from the environment
C15_Witness ==
    /\ op = "Load"
    /\ arg.shape = "nil *struct"
    /\ arg.fields[1].tag = MkTag(KeyK, FALSE, <<>>, TRUE)
    /\ EnvHolds(KeyK)
    /\ ret.err = ErrInvalidTarget
    /\ envLookups = <<>>

\* C16: a field that is unexported, has no tag, has the tag "-" or a tag
\* with an empty key keeps its value, is never looked up and is never the
\* field of a RequiredFieldError, "required" or not: Load looks up only the
\* other fields, and a struct of such fields alone loads without error.
C16_SkippedFieldUntouched ==
    Loading =>
        /\ \A i \in Places :
               Skipped(arg.fields[i]) =>
                   /\ target.vals[i] = arg.vals[i]
                   /\ ret.err.kind = "RequiredFieldError" => ret.err.field # arg.fields[i].name
        /\ Len(envLookups) = Cardinality(LookedUp)
        /\ Len(fetches) <= Cardinality(LookedUp)
        /\ (\A i \in Places : Skipped(arg.fields[i])) =>
               (ret.err = NilErr /\ envLookups = <<>> /\ fetches = <<>>)

\* a populated field tagged "-" kept its value with nothing looked up
C16_Witness ==
    /\ Loading
    /\ Len(arg.fields) = 1
    /\ arg.fields[1].tag = <<"-">>
    /\ arg.fields[1].kind = "string"
    /\ arg.vals[1] = <<"o">>
    /\ target.vals[1] = <<"o">>
    /\ EnvHolds(KeyK)
    /\ envLookups = <<>>
    /\ ret.err = NilErr

\* the first required field that fails
FirstAborting == CHOOSE i \in Aborting : \A j \in Aborting : i <= j

\* what C13 says of a call whose first failing required field is a
AbortedAt(a) ==
    /\ ret.err = RequiredFieldError(arg.fields[a].name, KeyK)
    /\ \A j \in Places :
           /\ (j < a /\ Succeeds(arg.fields[j])) =>
                  target.vals[j] = Coerced(arg.fields[j].kind, TextFor(arg.fields[j]))
           /\ j >= a => target.vals[j] = arg.vals[j]
    /\ Len(envLookups) = Cardinality(LookedUp)

\* C13: when a required field fails (nothing found, a text that is no
\* value of the kind, an unsupported kind) Load returns RequiredFieldError
\* with the name of the first such field and its key; the fields before it
\* hold what Load gave them, the fields after it hold what they held, and
\* nothing is looked up for them.
C13_RequiredFailureAborts == (Loading /\ Aborting # {}) => AbortedAt(FirstAborting)

\* a required field found nothing, and the field after it, which has a
\* default, was left alone
C13_Witness ==
    /\ Loading
    /\ arg.fields = StructOf(<<Field("string", TRUE, MkTag(KeyK, FALSE, <<>>, TRUE)),
                              Field("string", TRUE, MkTag(KeyK, TRUE, <<"1">>, FALSE))>>)
    /\ arg.vals = <<<<>>, <<>>>>
    /\ ret.err = RequiredFieldError(1, KeyK)
    /\ target.vals = <<<<>>, <<>>>>
    /\ Len(envLookups) = 1

\* the fields that fail without being required, among those Load gets to
Swallowed == {i \in Places : Reached(i) /\ Fails(arg.fields[i]) /\ ~Required(arg.fields[i])}

\* C14, as the specification states it: a field that fails without being
\* required holds the zero value of its type after the call, whatever it
\* held before; the later fields are processed and Load succeeds when no
\* required field fails.
C14_FailedFieldIsZero ==
    Loading =>
        /\ \A i \in Swallowed : target.vals[i] = Zero(arg.fields[i].kind)
        /\ \A j \in Places :
               (Reached(j) /\ Succeeds(arg.fields[j])) =>
                   target.vals[j] = Coerced(arg.fields[j].kind, TextFor(arg.fields[j]))
        /\ Aborting = {} => ret.err = NilErr

\* C14, amended: a field that fails without being required is left as it
\* was, so it holds the zero value only when the target held it before the
\* call; the later fields are processed and Load succeeds when no required
\* field fails.
C14_FailedFieldUnchanged ==
    Loading =>
        /\ \A i \in Swallowed : target.vals[i] = arg.vals[i]
        /\ \A j \in Places :
               (Reached(j) /\ Succeeds(arg.fields[j])) =>
                   target.vals[j] = Coerced(arg.fields[j].kind, TextFor(arg.fields[j]))
        /\ Aborting = {} => ret.err = NilErr

\* an int field that held 9 resolved to "x": Load succeeded and the field
\* still holds 9
C14_Witness ==
    /\ Loading
    /\ arg.fields = StructOf(<<Field("int", TRUE, MkTag(KeyK, FALSE, <<>>, FALSE))>>)
    /\ arg.vals = <<9>>
    /\ EnvHolds(KeyK)
    /\ env[resolver.envPrefix \o KeyK] = <<"x">>
    /\ ret.err = NilErr
    /\ target.vals = <<9>>

----------------------------------------------------------------------------
(* The environment prefix, and the array parser's error.                   *)

\* the members of a sequence
Range(seq) == {seq[i] : i \in DOMAIN seq}
\* the keys of the managed references a call resolves
KeysOfCall ==
    IF op = "Resolve" THEN {KeyOf(x) : x \in {y \in {arg} : Managed(y)}}
    ELSE IF op = "ResolveSlice" THEN {KeyOf(arg[i]) : i \in {j \in DOMAIN arg : Managed(arg[j])}}
    ELSE IF Loading THEN {KeyOfTag(arg.fields[i].tag) : i \in {j \in Places : ~Skipped(arg.fields[j])}}
    ELSE {}

\* C18: Resolve, ResolveSlice and Load look the environment up under
\* envPrefix+key only, so never under the bare key when the prefix is not
\* empty; they fetch from the Secret Manager under the key alone; and a
\* SecretNotFoundError or RequiredFieldError names the key alone.
C18_PrefixOnlyForEnv ==
    /\ Range(envLookups) \subseteq {resolver.envPrefix \o k : k \in KeysOfCall}
    /\ resolver.envPrefix # <<>> => Range(envLookups) \cap KeysOfCall = {}
    /\ Range(fetches) \subseteq KeysOfCall
    /\ ret.err.kind \in {"SecretNotFoundError", "RequiredFieldError"} =>
           ret.err.detail \in KeysOfCall

\* under the prefix P the variable K, though set, was not read: PK was
\* looked up, the secret K was fetched and gave the field its value
C18_Witness ==
    /\ Loading
    /\ arg.fields = StructOf(<<Field("string", TRUE, MkTag(KeyK, FALSE, <<>>, TRUE))>>)
    /\ resolver.envPrefix = PrefixP
    /\ KeyK \in DOMAIN env
    /\ env[KeyK] = <<"x">>
    /\ envLookups = <<KeyPK>>
    /\ fetches = <<KeyK>>
    /\ target.vals = <<<<"2">>>>

\* the text the tiers select for the reference x, when one gives a text
Selects(x) == EnvHolds(KeyOf(x)) \/ SourceGives(KeyOf(x)) \/ HasFallback(x)
SelectedText(x) ==
    IF EnvHolds(KeyOf(x)) THEN env[resolver.envPrefix \o KeyOf(x)]
    ELSE IF SourceGives(KeyOf(x)) THEN secrets[KeyOf(x)]
    ELSE FallbackOf(x)
\* the array parser rejects the text
Malformed(text) == parseArrayValue(text).err # NilErr
\* ResolveSlice was called with one reference whose text is rejected
SliceMalformed ==
    /\ op = "ResolveSlice"
    /\ Len(arg) = 1
    /\ Managed(arg[1])
    /\ Selects(arg[1])
    /\ Malformed(SelectedText(arg[1]))
\* the []string fields Load gets to whose text is rejected
MalformedFields ==
    {i \in Places :
        /\ Reached(i)
        /\ ~Skipped(arg.fields[i])
        /\ arg.fields[i].kind = "[]string"
        /\ Resolves(arg.fields[i])
        /\ Malformed(TextFor(arg.fields[i]))}

\* C20, as the specification states it: the array parser's error for a
\* malformed bracketed array always reaches the caller, of ResolveSlice and
\* of Load of a []string field, required or not.
C20_FormatErrorSurfaced ==
    /\ SliceMalformed => ret.err = parseArrayValue(SelectedText(arg[1])).err
    /\ Loading =>
           \A i \in MalformedFields :
               ret.err = parseArrayValue(TextFor(arg.fields[i])).err

\* C20, amended: the array parser's error reaches the caller of
\* ResolveSlice, with no result.  Load never returns it: a required
\* []string field with a malformed text aborts Load with RequiredFieldError
\* of the field and its key, and one that is not required is left as it was
\* while Load goes on, succeeding when no required field fails.
C20_FormatErrorPolicy ==
    /\ SliceMalformed => Failed(parseArrayValue(SelectedText(arg[1])).err)
    /\ Loading =>
           /\ ret.err.kind \in {"nil", "RequiredFieldError"}
           /\ \A i \in MalformedFields :
                  /\ target.vals[i] = arg.vals[i]
                  /\ Required(arg.fields[i]) =>
                         ret.err = RequiredFieldError(arg.fields[i].name, KeyK)
                  /\ Aborting = {} => ret.err = NilErr

\* a []string field that is not required got the malformed default "[x":
\* Load succeeded and the field kept the list it held
C20_Witness ==
    /\ Loading
    /\ arg.fields = StructOf(<<Field("[]string", TRUE, MkTag(KeyK, TRUE, <<"[", "x">>, FALSE))>>)
    /\ arg.vals = <<SliceOf(<<<<"o">>>>)>>
    /\ ~EnvHolds(KeyK)
    /\ ~SourceGives(KeyK)
    /\ ret.err = NilErr
    /\ target.vals = arg.vals

----------------------------------------------------------------------------
(* Resolution keeps no state.                                              *)

\* what Resolve of x gives in the present world, tier by tier
ExpectedResolve(x) ==
    IF ~Managed(x) THEN [val |-> x, err |-> NilErr]
    ELSE IF EnvHolds(KeyOf(x)) THEN [val |-> env[resolver.envPrefix \o KeyOf(x)], err |-> NilErr]
    ELSE IF SourceGives(KeyOf(x)) THEN [val |-> secrets[KeyOf(x)], err |-> NilErr]
    ELSE IF HasFallback(x) THEN [val |-> FallbackOf(x), err |-> NilErr]
    ELSE [val |-> <<>>, err |-> SecretNotFoundError(KeyOf(x))]

\* the result of the call in progress is the one the present environment,
\* Secret Manager and configuration give for its argument
FreshResult ==
    /\ op = "Resolve" => ret = ExpectedResolve(arg)
    /\ op = "ResolveSlice" => SameAs(ResolveSlice(resolver, World, arg))
    /\ op = "Load" =>
           /\ ret.err = Load(resolver, World, arg).err
           /\ target.vals = Load(resolver, World, arg).vals

\* C19: no step, a call of Resolve, ResolveSlice or Load included, changes
\* the Resolver, which stays as NewResolver made it; and after any changes
\* of the environment and of the Secret Manager and any earlier calls, a
\* call returns what the world at the time of the call gives for its
\* argument: nothing is remembered from one call to the next.
C19_Stateless ==
    /\ [][resolver' = resolver]_vars
    /\ [](resolver \in {NewResolver(c, opts) : c \in Clients, opts \in SeqsUpTo(Options, MaxOpts)})
    /\ []FreshResult

\* after the environment and the Secret Manager were both given a value for
\* K, a call returned the environment's one with the Secret Manager still on
C19_Witness ==
    /\ op = "Resolve"
    /\ arg = MkRef(KeyK, TRUE, <<"d">>)
    /\ KeyK \in DOMAIN env
    /\ env[KeyK] = <<"e">>
    /\ KeyK \in DOMAIN secrets
    /\ resolver = NewResolver("bound", <<>>)
    /\ ret = [val |-> <<"e">>, err |-> NilErr]

----------------------------------------------------------------------------
(* The Secret Manager tier.                                                *)

\* C21: when the environment gives nothing for the key and the fetch
\* succeeds with the empty string, Resolve returns the empty string and the
\* ResolveSlice of that one reference the empty list, without error: the
\* fallback is not used and its absence is no failure.
C21_EmptySecretShortCircuits ==
    \A x \in Targets :
        (/\ About(x)
         /\ Managed(x)
         /\ ~EnvHolds(KeyOf(x))
         /\ SourceGives(KeyOf(x))
         /\ secrets[KeyOf(x)] = <<>>) =>
            /\ Succeeded(<<>>)
            /\ fetches = <<KeyOf(x)>>

\* the secret K is empty and the reference has no fallback: Resolve gave
\* the empty string
C21_Witness ==
    /\ op = "Resolve"
    /\ arg = MkRef(KeyK, FALSE, <<>>)
    /\ ~EnvHolds(KeyK)
    /\ SourceGives(KeyK)
    /\ secrets[KeyK] = <<>>
    /\ ret = [val |-> <<>>, err |-> NilErr]

\* the expression is one the Secret Source may be fetched for: a managed
\* reference the environment gives no non-empty value for, with the tier
\* enabled and a client bound
Fetchable(x) == Managed(x) /\ ~EnvHolds(KeyOf(x)) /\ SourceConsulted
\* the fields of a Load the Secret Source may be fetched for
FetchableFields ==
    {i \in LookedUp : ~EnvHolds(KeyOfTag(arg.fields[i].tag)) /\ SourceConsulted}

\* C22: the Secret Source is fetched only with the tier enabled, a client
\* bound, for a managed reference the environment gave no non-empty value
\* for, and at most once for each such reference: at most once in a
\* Resolve, once an element in a ResolveSlice, once a processed field in a
\* Load.  NewResolver(nil) has the tier disabled, and a resolver without a
\* client never fetches, whatever its options.
C22_FetchOnlyWhenNeeded ==
    /\ ~NewResolver("nil", <<>>).secretManagerEnabled
    /\ resolver.client = "nil" => fetches = <<>>
    /\ ~resolver.secretManagerEnabled => fetches = <<>>
    /\ op = "Resolve" =>
           /\ Len(fetches) <= 1
           /\ fetches # <<>> => (Fetchable(arg) /\ fetches = <<KeyOf(arg)>>)
    /\ op = "ResolveSlice" =>
           Len(fetches) <= Cardinality({i \in DOMAIN arg : Fetchable(arg[i])})
    /\ Loading => Len(fetches) <= Cardinality(FetchableFields)
    /\ (op = "Load" /\ ~Loading) => fetches = <<>>

\* a resolver made without a client and with WithSecretManagerEnabled(true)
\* resolved "sm://K" with nothing in the environment and the secret K
\* stored: it fetched nothing and the reference was not found
C22_Witness ==
    /\ op = "Resolve"
    /\ arg = MkRef(KeyK, FALSE, <<>>)
    /\ resolver = NewResolver("nil", <<WithSecretManagerEnabled(TRUE)>>)
    /\ resolver.secretManagerEnabled
    /\ ~EnvHolds(KeyK)
    /\ FetchSucceeds(KeyK)
    /\ fetches = <<>>
    /\ ret = [val |-> <<>>, err |-> SecretNotFoundError(KeyK)]

----------------------------------------------------------------------------
(* Integer fields.                                                         *)

\* every earlier field is passed over, not required, or gets its value
ReachedWhole(i) ==
    \A j \in 1..(i - 1) :
        \/ Skipped(arg.fields[j])
        \/ ~Required(arg.fields[j])
        \/ Succeeds(arg.fields[j])
\* the text is no value of the integer kind: not a number, or a number the
\* width of the kind cannot hold (a negative one for an unsigned kind)
NoIntegerOf(kind, text) == ~IsNumber(text) \/ ~Fits(kind, NumberOf(text))

\* C23: an integer field whose resolved text is not a number, or is a
\* number outside the range of the field's width (a negative one for an
\* unsigned field), is a coercion error: Load assigns the field nothing, and
\* returns a RequiredFieldError for it when it is required.
C23_WidthSizedCoercion ==
    Loading =>
        \A i \in Places :
            LET f == arg.fields[i]
            IN  (/\ ReachedWhole(i)
                 /\ ~Skipped(f)
                 /\ f.kind \in SignedKinds \cup UnsignedKinds
                 /\ Resolves(f)
                 /\ NoIntegerOf(f.kind, TextFor(f))) =>
                    /\ target.vals[i] = arg.vals[i]
                    /\ Required(f) =>
                           (ret.err.kind = "RequiredFieldError" /\ ret.err.field = f.name)

----------------------------------------------------------------------------
(* RefSpec: the reference loadStruct makes of a directive, parsed as       *)
(* Resolve parses it, for every directive whose key and default have at    *)
(* most MaxRefLen characters.                                              *)

\* the keys parseTag can give: trimmed, not empty (loadStruct passes the
\* empty key over), of at most n characters
RefKeys(n) ==
    {k \in SeqsUpTo({"K", "|", " "}, n) : k # <<>> /\ TrimSpace(k) = k}
\* the defaults of at most n characters
RefDefaults(n) == SeqsUpTo({"d", "|", " "}, n)
\* the directives: without a default, or with one
Directives(n) ==
    {[secretName |-> k, defaultValue |-> d, hasDefault |-> TRUE, required |-> r] :
        k \in RefKeys(n), d \in RefDefaults(n), r \in BOOLEAN}
    \cup {[TagInfo(k) EXCEPT !.required = r] : k \in RefKeys(n), r \in BOOLEAN}

RefInit ==
    /\ IdleWorld
    /\ op = "init"
    /\ arg \in Directives(MaxRefLen)
    /\ ret = NoRet
    /\ envLookups = <<>>
    /\ fetches = <<>>

\* loadStruct builds refString of the directive and Resolve parses it
CallRefString ==
    /\ op = "init"
    /\ arg.secretName # <<>>
    /\ op' = "refString"
    /\ ret' = Parse(refStringOf(arg))
    /\ UNCHANGED <<world, arg, envLookups, fetches>>

RefNext == CallRefString

RefSpec == RefInit /\ [][RefNext]_vars

\* C25: the reference made of a directive with a key parses as a managed
\* reference with the key, the default and the hasDefault of the directive,
\* whatever the key holds, "||" included.
C25_ReferenceRoundTrips ==
    op = "refString" =>
        /\ ret.IsSecretRef
        /\ ret.SecretName = arg.secretName
        /\ ret.DefaultValue = arg.defaultValue
        /\ ret.HasDefault = arg.hasDefault

====
